---------------------------- MODULE Spec2Model ----------------------------
(***************************************************************************)
(* Model of the serverless handlers of the project workspace application:  *)
(*   - notion-import-page (src/unnamed/part_001): the request handler, its *)
(*     title resolution and the recursive block-to-text conversion;        *)
(*   - formatSummaryText of summarize-text (src/unnamed/part_000).         *)
(* Texts are TLA+ strings.  The bullet character U+2022 is written "@",    *)
(* because the module is kept in ASCII.                                    *)
(***************************************************************************)
EXTENDS Integers, Sequences, FiniteSets, TLC

VARIABLES
    \* --- summarize-text: formatSummaryText applied to a text -------------
    text,            \* the current text
    prev,            \* the text before the last application
    orig,            \* the text the first application was given
    passes,          \* number of applications so far
    \* --- notion-import-page: one request ---------------------------------
    pc,              \* the handler's position (the await it is suspended at)
    request,         \* the request received: method and body
    userId, pageId, projectId,
    projectAccess, projectError,     \* result of the is_project_member rpc
    projectOwner, ownerError,        \* result of the projects query
    connectionData,                  \* the notion_connections row
    pageData,                        \* GET /v1/pages/{pageId}
    blocksData,                      \* GET /v1/blocks/{pageId}/children
    pageTitle,
    stack,           \* the active processBlocks calls, innermost last
    content,         \* the value processBlocks returned to the handler
    noteData,        \* the row the insert returned
    response,        \* the response returned
    project_notes,   \* the project_notes table
    calls,           \* the store and Notion calls issued so far, in order
    \* --- notion-import-page: two requests in one isolate -----------------
    running,         \* the request whose locals the variables above hold
                     \* (1 or 2; 0: there is one request only)
    parked,          \* the locals of the other request, suspended at an await
    \* --- stripe-webhook ---------------------------------------------------
    hooks,           \* the handlers: position, request, locals and response
    user_memberships,   \* the user_memberships table, by user_id
    profiles,        \* profiles.membership_tier_id, by id
    delivered,       \* number of requests delivered so far
    \* --- useProjectChat ---------------------------------------------------
    currentProjectId,   \* the hook's projectId
    messages,        \* state.messages
    isLoading,       \* state.isLoading
    projectData,     \* state.projectData: the project it describes, "" for null
    fetching,        \* the projects whose fetchProjectData is pending
    inflight,        \* the project-chat requests awaiting their reply
    sent,            \* number of messages sent so far
    authUser,        \* useAuth().user, "" when signed out
    \* --- user-statistics --------------------------------------------------
    projects,        \* the projects table, by id
    project_members, \* the project_members table
    statistics       \* the handler: position, locals and response

fmtVars == <<text, prev, orig, passes>>

importVars == <<pc, request, userId, pageId, projectId, projectAccess,
                projectError, projectOwner, ownerError, connectionData,
                pageData, blocksData, pageTitle, stack, content, noteData,
                response, project_notes, calls>>

\* What one invocation of the handler owns: everything but the table.
localVars == <<pc, request, userId, pageId, projectId, projectAccess,
               projectError, projectOwner, ownerError, connectionData,
               pageData, blocksData, pageTitle, stack, content, noteData,
               response, calls>>

schedVars == <<running, parked>>

stripeVars == <<hooks, user_memberships, profiles, delivered>>

chatVars == <<currentProjectId, messages, isLoading, projectData, fetching,
              inflight, sent, authUser>>

statsVars == <<projects, project_members, statistics>>

\* The variables of the other components, which a step of the import
\* handler leaves alone, and those a formatting step leaves alone.
otherVars == <<fmtVars, schedVars, stripeVars, chatVars, statsVars>>
nonFormatVars == <<importVars, schedVars, stripeVars, chatVars, statsVars>>
nonStripeVars == <<fmtVars, importVars, schedVars, chatVars, statsVars>>
nonChatVars == <<fmtVars, importVars, schedVars, stripeVars, statsVars>>
nonStatsVars == <<fmtVars, importVars, schedVars, stripeVars, chatVars>>

vars == <<fmtVars, importVars, schedVars, stripeVars, chatVars, statsVars>>

(***************************************************************************)
(* Strings                                                                 *)
(***************************************************************************)
NL == "\n"
BULLET == "@"

\* The characters JavaScript's \s matches, among those the model uses.
WhiteSpace == {" ", "\n", "\t"}

CharAt(s, i) == SubSeq(s, i, i)

\* Length of the longest run of characters of `set` starting at position i.
RECURSIVE RunIn(_, _, _)
RunIn(s, i, set) ==
    IF i > Len(s) \/ CharAt(s, i) \notin set THEN 0
    ELSE 1 + RunIn(s, i + 1, set)

\* Length of the longest run of characters outside `set` starting at i.
RECURSIVE RunNotIn(_, _, _)
RunNotIn(s, i, set) ==
    IF i > Len(s) \/ CharAt(s, i) \in set THEN 0
    ELSE 1 + RunNotIn(s, i + 1, set)

\* ^ under the m flag: the start of the text or the position after a newline.
AtLineStart(s, i) == i = 1 \/ CharAt(s, i - 1) = NL

\* String.prototype.trim
RECURSIVE TrimLeft(_)
TrimLeft(s) ==
    IF Len(s) > 0 /\ Head(s) \in WhiteSpace THEN TrimLeft(Tail(s)) ELSE s

RECURSIVE TrimRight(_)
TrimRight(s) ==
    IF Len(s) > 0 /\ CharAt(s, Len(s)) \in WhiteSpace
    THEN TrimRight(SubSeq(s, 1, Len(s) - 1)) ELSE s

Trim(s) == TrimRight(TrimLeft(s))

\* s contains sub as a contiguous substring
Contains(s, sub) ==
    \E i \in 1..(Len(s) - Len(sub) + 1) : SubSeq(s, i, i + Len(sub) - 1) = sub

(***************************************************************************)
(* formatSummaryText: each replace scans the text left to right; a match   *)
(* is replaced and the scan resumes after it, assertions looking at the    *)
(* original text.                                                          *)
(***************************************************************************)

\* text.replace(/\n{3,}/g, '\n\n')
RECURSIVE CollapseNewlines(_, _)
CollapseNewlines(s, i) ==
    IF i > Len(s) THEN ""
    ELSE LET r == RunIn(s, i, {NL})
         IN  IF r >= 3 THEN "\n\n" \o CollapseNewlines(s, i + r)
             ELSE CharAt(s, i) \o CollapseNewlines(s, i + 1)

\* text.replace(/^([-*@])\s*/gm, '@ ')
RECURSIVE NormalizeBullets(_, _)
NormalizeBullets(s, i) ==
    IF i > Len(s) THEN ""
    ELSE IF AtLineStart(s, i) /\ CharAt(s, i) \in {"-", "*", BULLET}
         THEN (BULLET \o " ")
                \o NormalizeBullets(s, i + 1 + RunIn(s, i + 1, WhiteSpace))
         ELSE CharAt(s, i) \o NormalizeBullets(s, i + 1)

\* #{1,6}\s at position i: the number of characters matched, 0 for no match.
HeadingMarker(s, i) ==
    LET h == RunIn(s, i, {"#"})
    IN  IF h >= 1 /\ h <= 6 /\ i + h <= Len(s) /\ CharAt(s, i + h) \in WhiteSpace
        THEN h + 1 ELSE 0

\* text.replace(/([^\n])\n(#{1,6}\s)/g, '$1\n\n$2')
RECURSIVE SpaceBeforeHeadings(_, _)
SpaceBeforeHeadings(s, i) ==
    IF i > Len(s) THEN ""
    ELSE LET m == IF i + 1 <= Len(s) /\ CharAt(s, i) # NL /\ CharAt(s, i + 1) = NL
                  THEN HeadingMarker(s, i + 2) ELSE 0
         IN  IF m > 0
             THEN CharAt(s, i) \o "\n\n" \o SubSeq(s, i + 2, i + 1 + m)
                    \o SpaceBeforeHeadings(s, i + 2 + m)
             ELSE CharAt(s, i) \o SpaceBeforeHeadings(s, i + 1)

\* ^(#{1,6}\s[^\n]+)(?!\n\n) at position i: the number of characters matched,
\* 0 for no match.  [^\n]+ is greedy and gives back one character when the
\* lookahead fails at the end of the line.
HeadingLine(s, i) ==
    LET m == IF AtLineStart(s, i) THEN HeadingMarker(s, i) ELSE 0
        r == RunNotIn(s, i + m, {NL})
        e == i + m + r           \* the position after the greedy match
        blankFollows == e + 1 <= Len(s) /\ CharAt(s, e) = NL /\ CharAt(s, e + 1) = NL
    IN  IF m = 0 \/ r = 0 THEN 0
        ELSE IF ~blankFollows THEN m + r
        ELSE IF r >= 2 THEN m + r - 1
        ELSE 0

\* text.replace(/^(#{1,6}\s[^\n]+)(?!\n\n)/gm, '$1\n\n')
RECURSIVE SpaceAfterHeadings(_, _)
SpaceAfterHeadings(s, i) ==
    IF i > Len(s) THEN ""
    ELSE LET m == HeadingLine(s, i)
         IN  IF m > 0
             THEN SubSeq(s, i, i + m - 1) \o "\n\n" \o SpaceAfterHeadings(s, i + m)
             ELSE CharAt(s, i) \o SpaceAfterHeadings(s, i + 1)

\* text.replace(/([^\n])\n([^#\s@-])/g, '$1\n\n$2')
RECURSIVE SpaceBetweenParagraphs(_, _)
SpaceBetweenParagraphs(s, i) ==
    IF i > Len(s) THEN ""
    ELSE IF /\ i + 2 <= Len(s)
            /\ CharAt(s, i) # NL
            /\ CharAt(s, i + 1) = NL
            /\ CharAt(s, i + 2) \notin (WhiteSpace \cup {"#", BULLET, "-"})
         THEN CharAt(s, i) \o "\n\n" \o CharAt(s, i + 2)
                \o SpaceBetweenParagraphs(s, i + 3)
         ELSE CharAt(s, i) \o SpaceBetweenParagraphs(s, i + 1)

\* text.replace(/\s{2,}/g, ' ')
RECURSIVE CollapseSpaces(_, _)
CollapseSpaces(s, i) ==
    IF i > Len(s) THEN ""
    ELSE LET r == RunIn(s, i, WhiteSpace)
         IN  IF r >= 2 THEN " " \o CollapseSpaces(s, i + r)
             ELSE CharAt(s, i) \o CollapseSpaces(s, i + 1)

formatSummaryText(t) ==
    IF t = "" THEN ""
    ELSE LET t1 == CollapseNewlines(t, 1)
             t2 == NormalizeBullets(t1, 1)
             t3 == SpaceBeforeHeadings(t2, 1)
             t4 == SpaceAfterHeadings(t3, 1)
             t5 == SpaceBetweenParagraphs(t4, 1)
             t6 == CollapseSpaces(t5, 1)
         IN  Trim(t6)

(***************************************************************************)
(* notion-import-page: the data the handler reads.                         *)
(*                                                                         *)
(* A rich-text array is a sequence of plain_text strings.  A page property *)
(* is [name, type, title]; a missing title array and an empty one are both *)
(* <<>> (the handler tests both the same way).  pageData.properties is the *)
(* sequence of the properties in key order.                                *)
(*                                                                         *)
(* A block is a record of the fields the handler reads:                    *)
(*   id, type, has_children,                                               *)
(*   payload     whether block[block.type] is defined,                     *)
(*   rich_text   block[block.type].rich_text,                              *)
(*   checked, language, emoji, title   (to_do, code, callout, child_page), *)
(* and `kids`, which is not a field of the block: it is what the Notion    *)
(* API answers to GET /v1/blocks/{id}/children, kept with the block:       *)
(*   [kind |-> "none"]          the block has no children                  *)
(*   [kind |-> "throw"]         the fetch (or reading its body) throws     *)
(*   [kind |-> "http_error"]    a response that is not ok                  *)
(*   [kind |-> "ok", results]   the children                               *)
(***************************************************************************)
NoKids == [kind |-> "none", results |-> <<>>]
KidsThrow == [kind |-> "throw", results |-> <<>>]
KidsHttpError == [kind |-> "http_error", results |-> <<>>]
KidsOk(bs) == [kind |-> "ok", results |-> bs]

Block(id, type, payload, rt, kids) ==
    [id |-> id, type |-> type, payload |-> payload, rich_text |-> rt,
     has_children |-> kids.kind # "none", kids |-> kids,
     checked |-> FALSE, language |-> "", emoji |-> "", title |-> ""]

Leaf(id, type, rt) == Block(id, type, TRUE, rt, NoKids)

Prop(name, type, title) == [name |-> name, type |-> type, title |-> title]

Page(props) == [properties |-> props, url |-> "https://www.notion.so/p1"]

\* The kinds processBlock returns nothing for when the rich text is empty,
\* and paragraph: the kinds that read block[type].rich_text.
TextKinds == {"paragraph", "heading_1", "heading_2", "heading_3",
              "bulleted_list_item", "numbered_list_item", "to_do", "toggle",
              "quote", "code", "callout"}

(***************************************************************************)
(* The Notion workspaces the requests are run against.                     *)
(***************************************************************************)
MaxNodes == 3        \* blocks in a block tree of the structure family
MaxTitleBlocks == 2  \* top-level blocks of a page of the title family

Digit(i) == <<"1", "2", "3", "4", "5", "6", "7", "8", "9">>[i]

\* Structure family: every forest of at most MaxNodes blocks; a block is a
\* paragraph, a bulleted list item or a paragraph without its payload, its
\* text is its own id, and a block without children in the forest either
\* has none, or its children fetch throws, or it answers a non-ok status.
NodeShapes == {<<"paragraph", TRUE>>, <<"bulleted_list_item", TRUE>>,
               <<"paragraph", FALSE>>}

RECURSIVE ForestsOf(_, _, _)
BlocksOf(n, id) ==
    IF n = 1
    THEN {Block(id, sh[1], sh[2], <<id>>, k) :
            sh \in NodeShapes, k \in {NoKids, KidsThrow, KidsHttpError}}
    ELSE LET fs == ForestsOf(n - 1, id \o ".", 1)
         IN  {Block(id, sh[1], sh[2], <<id>>, KidsOk(f)) :
                sh \in NodeShapes, f \in fs}

\* The sibling lists of exactly n blocks in all, the first sibling being the
\* i-th child of the block whose id (and a dot) is `prefix`.
ForestsOf(n, prefix, i) ==
    IF n = 0 THEN {<<>>}
    ELSE UNION {
           LET bs == BlocksOf(k, prefix \o Digit(i))
               rs == ForestsOf(n - k, prefix, i + 1)
           IN  {<<b>> \o rest : b \in bs, rest \in rs}
           : k \in 1..n}

\* Structure family: the block trees of up to MaxNodes blocks.
Forests == UNION {ForestsOf(n, "b", 1) : n \in 0..MaxNodes}

\* Kind family: one top-level block of every kind the converter knows, and
\* one it does not, with an empty, a one-run and a two-run rich text.
RichTexts == {<<>>, <<"a">>, <<"a", "b">>}

KindBlocks ==
    {Leaf("b1", t, rt) : t \in TextKinds \cup {"divider", "table", "column_list", "image"},
                         rt \in RichTexts}
    \cup {[Leaf("b1", "to_do", rt) EXCEPT !.checked = TRUE] : rt \in RichTexts}
    \cup {[Leaf("b1", "code", rt) EXCEPT !.language = "js"] : rt \in RichTexts}
    \cup {[Leaf("b1", "callout", rt) EXCEPT !.emoji = "!"] : rt \in RichTexts}
    \cup {[Leaf("b1", "child_page", <<>>) EXCEPT !.title = t] : t \in {"", "Sub"}}

KindLists == {<<b>> : b \in KindBlocks}

\* The same blocks one level down, as the only child of a toggle.
NestedKindLists ==
    {<<Block("b1", "toggle", TRUE, <<"t">>, KidsOk(<<[b EXCEPT !.id = "b1.1"]>>))>> :
        b \in KindBlocks}

\* Title family: the pages whose properties decide the title, with the
\* top-level blocks the title can fall back to.
Text40 == "0123456789012345678901234567890123456789"
Text41 == Text40 \o "X"

OptionalProp(name, type, titles) ==
    {<<>>} \cup {<<Prop(name, type, t)>> : t \in titles}

TitlePages ==
    {Page(a \o b \o c \o d) :
        a \in OptionalProp("Topic", "title", {<<>>, <<"Topic">>}),
        b \in OptionalProp("Name", "title", {<<"">>, <<"Na", "me">>}),
        c \in OptionalProp("title", "title", {<<>>, <<"">>, <<"Ti", "tle">>}),
        d \in OptionalProp("Notes", "rich_text", {<<"Notes">>})
              \cup OptionalProp("Label", "title", {<<"Label">>})}

TitleBlocks(id) ==
    {Leaf(id, "heading_1", <<"Head", "ing">>),
     Leaf(id, "heading_1", <<"", "late">>),
     Leaf(id, "heading_2", <<"Sub">>),
     Leaf(id, "paragraph", <<>>),
     Leaf(id, "paragraph", <<"Para">>),
     Leaf(id, "paragraph", <<Text40>>),
     Leaf(id, "paragraph", <<Text41>>)}

RECURSIVE TitleListsOf(_)
TitleListsOf(n) ==
    IF n = 0 THEN {<<>>}
    ELSE {rest \o <<b>> : rest \in TitleListsOf(n - 1),
                          b \in TitleBlocks("b" \o Digit(n))}

TitleLists == UNION {TitleListsOf(n) : n \in 0..MaxTitleBlocks}

\* The page of the end-to-end scenario.
PlanPage == Page(<<Prop("Name", "title", <<"Q3 Plan">>)>>)

PlanBlocks == <<Leaf("b1", "heading_1", <<"Goals">>),
                Leaf("b2", "bulleted_list_item", <<"Grow 10%">>),
                Leaf("b3", "bulleted_list_item", <<"Ship v2">>)>>

(***************************************************************************)
(* notion-import-page: title resolution (lines 93-151).                    *)
(***************************************************************************)
TitleLimit == 40

\* The date new Date().toLocaleDateString() returns.
Today == "11/5/2026"

\* Mutant of JoinPlainText: join(' '), a space between the runs.
RECURSIVE JoinPlainTextSpaced(_)
JoinPlainTextSpaced(rt) ==
    IF rt = <<>> THEN ""
    ELSE IF Len(rt) = 1 THEN Head(rt)
    ELSE Head(rt) \o " " \o JoinPlainTextSpaced(Tail(rt))

\* richText.map(t => t.plain_text).join('')
RECURSIVE JoinPlainText(_)
JoinPlainText(rt) ==
    IF rt = <<>> THEN "" ELSE Head(rt) \o JoinPlainText(Tail(rt))

\* The properties named `name` (at most one: names are keys).
Named(props, name) == SelectSeq(props, LAMBDA p : p.name = name)

\* properties[name] && properties[name].title && Array.isArray(...) && length > 0
HasTitleArray(props, name) ==
    Named(props, name) # <<>> /\ Len(Named(props, name)[1].title) > 0

\* The for-in loop of lines 119-127: the first property, in key order, of
\* type title with a non-empty title array.
FirstTitleTyped(props) ==
    SelectSeq(props, LAMBDA p : p.type = "title" /\ Len(p.title) > 0)

\* Lines 95-128.
PropertyTitle(props) ==
    IF HasTitleArray(props, "title")
    THEN JoinPlainText(Named(props, "title")[1].title)
    ELSE IF HasTitleArray(props, "Name")
    THEN JoinPlainText(Named(props, "Name")[1].title)
    ELSE IF FirstTitleTyped(props) # <<>>
    THEN JoinPlainText(FirstTitleTyped(props)[1].title)
    ELSE ""

\* block[type]?.rich_text?.[0]?.plain_text is truthy
FirstRunHasText(block) ==
    block.payload /\ Len(block.rich_text) > 0 /\ block.rich_text[1] # ""

\* pageTitle.length > 40 ? pageTitle.substring(0, 40) + '...' : pageTitle
Truncate(t) ==
    IF Len(t) > TitleLimit THEN SubSeq(t, 1, TitleLimit) \o "..." ELSE t

\* Mutant of BlockTitle: a heading_1 anywhere is preferred to a paragraph.
BlockTitleHeadingFirst(blocks) ==
    LET hs == SelectSeq(blocks, LAMBDA b : b.type = "heading_1" /\ FirstRunHasText(b))
        ps == SelectSeq(blocks, LAMBDA b : b.type = "paragraph" /\ FirstRunHasText(b))
    IN  IF hs # <<>> THEN JoinPlainText(hs[1].rich_text)
        ELSE IF ps # <<>> THEN Truncate(JoinPlainText(ps[1].rich_text))
        ELSE ""

\* The loop of lines 133-145: the first block that is a heading_1 or a
\* paragraph whose first run has text gives the title.
RECURSIVE BlockTitle(_)
BlockTitle(blocks) ==
    IF blocks = <<>> THEN ""
    ELSE LET block == Head(blocks)
         IN  IF block.type = "heading_1" /\ FirstRunHasText(block)
             THEN JoinPlainText(block.rich_text)
             ELSE IF block.type = "paragraph" /\ FirstRunHasText(block)
             THEN Truncate(JoinPlainText(block.rich_text))
             ELSE BlockTitle(Tail(blocks))

FallbackTitle == "Notion Page (" \o Today \o ")"

\* Mutant of ResolveTitle: the final fallback of lines 148-150 is missing.
ResolveTitleWithoutFallback(page, blocks) ==
    LET fromProps == PropertyTitle(page.properties)
    IN  IF fromProps # "" THEN fromProps ELSE BlockTitle(blocks)

\* Lines 95-151.
ResolveTitle(page, blocks) ==
    LET fromProps == PropertyTitle(page.properties)
        fromBlocks == BlockTitle(blocks)
    IN  IF fromProps # "" THEN fromProps
        ELSE IF fromBlocks # "" THEN fromBlocks
        ELSE FallbackTitle

(***************************************************************************)
(* notion-import-page: processBlock (lines 193-268).                       *)
(***************************************************************************)
\* '  '.repeat(level)
RECURSIVE Indent(_)
Indent(level) == IF level = 0 THEN "" ELSE "  " \o Indent(level - 1)

\* The code fence, three backquotes, which a TLA+ string cannot hold.
FENCE == "~~~"

Placeholder == "\n\n*[Error loading nested content]*\n\n"

\* block[block.type] is undefined and processBlock reads a field of it.
ProcessBlockThrows(block) ==
    block.type \in TextKinds \cup {"child_page"} /\ ~block.payload

\* Mutant of EmptyParagraph: an empty paragraph gives nothing, like the
\* other kinds.
EmptyParagraphNothing(indent) == ""

\* Line 201: the paragraph without rich text.
EmptyParagraph(indent) == indent \o "\n\n"

\* Mutant of Checkbox: the box is drawn open whatever the state.
CheckboxAlwaysOpen(checked) == "[ ]"

\* Line 229: block.to_do.checked ? '[x]' : '[ ]'
Checkbox(checked) == IF checked THEN "[x]" ELSE "[ ]"

processBlock(block, level) ==
    LET indent == Indent(level)
        txt == JoinPlainText(block.rich_text)
        has == Len(block.rich_text) > 0
    IN  CASE block.type = "paragraph" ->
               IF has THEN indent \o txt \o "\n\n" ELSE EmptyParagraph(indent)
          [] block.type = "heading_1" ->
               IF has THEN indent \o "# " \o txt \o "\n\n" ELSE ""
          [] block.type = "heading_2" ->
               IF has THEN indent \o "## " \o txt \o "\n\n" ELSE ""
          [] block.type = "heading_3" ->
               IF has THEN indent \o "### " \o txt \o "\n\n" ELSE ""
          [] block.type = "bulleted_list_item" ->
               IF has THEN indent \o "- " \o txt \o "\n" ELSE ""
          [] block.type = "numbered_list_item" ->
               IF has THEN indent \o "1. " \o txt \o "\n" ELSE ""
          [] block.type = "to_do" ->
               IF has
               THEN indent \o "- " \o Checkbox(block.checked)
                      \o " " \o txt \o "\n"
               ELSE ""
          [] block.type = "toggle" ->
               IF has THEN indent \o "**Toggle: " \o txt \o "**\n\n" ELSE ""
          [] block.type = "child_page" ->
               indent \o "**Child Page: "
                 \o (IF block.title # "" THEN block.title ELSE "Untitled")
                 \o "**\n\n"
          [] block.type = "quote" ->
               IF has THEN indent \o "> " \o txt \o "\n\n" ELSE ""
          [] block.type = "code" ->
               IF has
               THEN indent \o FENCE \o block.language \o "\n" \o txt \o "\n"
                      \o FENCE \o "\n\n"
               ELSE ""
          [] block.type = "divider" -> indent \o "---\n\n"
          [] block.type = "callout" ->
               IF has
               THEN indent \o "> "
                      \o (IF block.emoji # "" THEN block.emoji \o " " ELSE "")
                      \o "**Callout:** " \o txt \o "\n\n"
               ELSE ""
          [] block.type = "table" ->
               indent \o "[Table content not fully supported]\n\n"
          [] block.type = "column_list" ->
               indent \o "[Column layout not fully supported]\n\n"
          [] OTHER -> indent \o "[" \o block.type \o " block type not supported]\n\n"

(***************************************************************************)
(* notion-import-page: the handler (lines 9-357).  One action per await:   *)
(* an action is the code from one suspension point to the next.            *)
(***************************************************************************)
\* The endpoint handlers; ImportPage is the one modelled in full, the others
\* up to their preflight branch.
ImportPage == "notion-import-page"
Endpoints == {ImportPage, "notion-list-databases", "summarize-text",
              "user-statistics", "stripe-webhook"}

NoRequest == [endpoint |-> "", method |-> "", parses |-> FALSE,
              body |-> [userId |-> "", pageId |-> "", projectId |-> ""]]

NoPage == [properties |-> <<>>, url |-> ""]

NoNote == [id |-> 0, title |-> "", content |-> "", project_id |-> "",
           user_id |-> "", tags |-> <<>>,
           source_document |-> [type |-> "", url |-> "", name |-> "", id |-> ""]]

\* A response: its status and the fields of its JSON body (kind "empty":
\* a null body; "none": no response yet).
NoResponse == [status |-> 0, kind |-> "none", cors |-> FALSE, success |-> FALSE,
               note |-> NoNote, message |-> "", error |-> ""]

\* Mutant of PreflightResponse: the preflight is answered like an error.
PreflightResponseWithBody ==
    [NoResponse EXCEPT !.status = 400, !.kind = "json", !.cors = TRUE,
                       !.error = "Unknown error occurred"]

\* new Response(null, { headers: corsHeaders }); the status defaults to 200.
PreflightResponse ==
    [NoResponse EXCEPT !.status = 200, !.kind = "empty", !.cors = TRUE]

\* Lines 332-342.
SuccessResponse(note, title) ==
    [status |-> 200, kind |-> "json", cors |-> TRUE, success |-> TRUE, note |-> note,
     message |-> "Successfully imported \"" \o title \o "\" from Notion",
     error |-> ""]

\* Mutant of ErrorResponse: the status summarize-text answers errors with.
ErrorResponseStatus500(msg) ==
    [status |-> 500, kind |-> "json", cors |-> TRUE, success |-> FALSE, note |-> NoNote,
     message |-> "",
     error |-> IF msg # "" THEN msg ELSE "Unknown error occurred"]

\* The catch of lines 343-356.
ErrorResponse(msg) ==
    [status |-> 400, kind |-> "json", cors |-> TRUE, success |-> FALSE, note |-> NoNote,
     message |-> "",
     error |-> IF msg # "" THEN msg ELSE "Unknown error occurred"]

\* Mutant of NotionError: the upstream message is dropped.
NotionErrorWithoutMessage(upstream) == "Notion API error: Unknown error"

\* Lines 70 and 88: the error thrown for a response that is not ok.
NotionError(upstream) ==
    "Notion API error: " \o (IF upstream # "" THEN upstream ELSE "Unknown error")

MissingParameters == "Missing required parameters: userId, pageId, and projectId"
NoAccess == "You don't have access to this project"
NoConnection == "Notion connection not found"
\* Messages of the errors the runtime and the store raise.
JsonError == "Unexpected end of JSON input"
NetworkError == "error sending request"
TypeErrorMessage == "Cannot read properties of undefined (reading 'rich_text')"
StoreMessage == "new row violates row-level security policy"

\* The message field of the error body of a Notion response that is not ok
\* ("": the body has none).
UpstreamMessages == {"Could not find page", ""}

\* A call issued and how it ended: "ok", "error" (the store reports an
\* error, Notion a status that is not ok, with its message) or "throw".
Call(api, id, status, message) ==
    [api |-> api, id |-> id, status |-> status, message |-> message]

\* A call of processBlocks(blocks, level): the loop index i and blockContent.
Frame(blocks, level) ==
    [blocks |-> blocks, i |-> 1, level |-> level, blockContent |-> ""]

Top == stack[Len(stack)]

\* Mutant of CurrentBlock: the loop takes the blocks last to first.
BlockFromTheEnd == Top.blocks[Len(Top.blocks) + 1 - Top.i]

\* for (const block of blocks): the block of the current iteration.
CurrentBlock == Top.blocks[Top.i]

\* The stack with its innermost call replaced by f.
WithTop(f) == [stack EXCEPT ![Len(stack)] = f]

\* Mutant of AppendAndAdvance: the text is put in front of blockContent.
PrependAndAdvance(f, s) ==
    [f EXCEPT !.blockContent = s \o @, !.i = @ + 1]

\* blockContent += s, and on to the next block of the loop.
AppendAndAdvance(f, s) ==
    [f EXCEPT !.blockContent = @ \o s, !.i = @ + 1]

\* Mutant of CatchChildren: the error is swallowed without a placeholder.
CatchChildrenSilently(f) == AppendAndAdvance(f, "")

\* Mutant of CatchChildren: what the failed call had assembled is kept in
\* front of the placeholder.
CatchChildrenKeepingFragments(f) ==
    AppendAndAdvance(f, IF Top = f THEN Placeholder
                        ELSE Top.blockContent \o Placeholder)

\* The catch of lines 294-297, in the call f whose block's children failed.
CatchChildren(f) == AppendAndAdvance(f, Placeholder)

\* Lines 289-293 when the response is not ok: nothing is appended.
SkipChildren(f) == AppendAndAdvance(f, "")

\* Mutant of NoteRow: the formatting pass of summarize-text is applied to
\* the body.
NoteRowFormatted(title, body, project, user, page, id) ==
    [id |-> Len(project_notes) + 1,
     title |-> title,
     content |-> formatSummaryText(body),
     project_id |-> project,
     user_id |-> user,
     tags |-> <<"notion", "imported", "notion-import">>,
     source_document |-> [type |-> "notion", url |-> page.url,
                          name |-> title, id |-> id]]

\* Lines 310-322: the row inserted.
NoteRow(title, body, project, user, page, id) ==
    [id |-> Len(project_notes) + 1,
     title |-> title,
     content |-> Trim(body),
     project_id |-> project,
     user_id |-> user,
     tags |-> <<"notion", "imported", "notion-import">>,
     source_document |-> [type |-> "notion", url |-> page.url,
                          name |-> title, id |-> id]]

ImportAtRest ==
    /\ pc = "idle"
    /\ request = NoRequest
    /\ userId = "" /\ pageId = "" /\ projectId = ""
    /\ projectAccess = FALSE /\ projectError = FALSE
    /\ projectOwner = [owner_id |-> ""] /\ ownerError = FALSE
    /\ connectionData = [access_token |-> ""]
    /\ pageData = NoPage
    /\ blocksData = [results |-> <<>>, has_more |-> FALSE]
    /\ pageTitle = ""
    /\ stack = <<>>
    /\ content = ""
    /\ noteData = NoNote
    /\ response = NoResponse
    /\ project_notes = <<>>
    /\ calls = <<>>

accessVars == <<projectAccess, projectError, projectOwner, ownerError>>
paramVars == <<userId, pageId, projectId>>
notionVars == <<pageData, blocksData, pageTitle>>

\* The workspaces a request is run against.  Every workspace is imported
\* by a member of a project another user owns; the other ways of passing
\* the access check import the page of the end-to-end scenario.
MemberOfAnothersProject ==
    projectAccess /\ ~projectError /\ projectOwner.owner_id = "u2" /\ ~ownerError

\* One request is run against every workspace; of two concurrent requests
\* the first imports the page of the scenario and the second a page of its
\* own, with blocks no text of which occurs in the first.
Alone == running = 0

Pages ==
    IF MemberOfAnothersProject /\ Alone THEN TitlePages \cup {PlanPage} ELSE {PlanPage}

\* The id of the page a request asks for.
PageOf == IF running = 2 THEN "p2" ELSE "p1"

\* The block trees of the second request's page.
OtherForests == ForestsOf(2, "c", 1)
OtherBlocks == <<Block("c1", "paragraph", TRUE, <<"c1">>,
                       KidsOk(<<Leaf("c1.1", "bulleted_list_item", <<"c1.1">>)>>)),
                 Leaf("c2", "paragraph", <<"c2">>)>>

\* The calls the handler has issued and is suspended on.  Every call is
\* awaited where it is issued (lines 28, 33, 44, 58, 76, 282, 308), so pc
\* names the one call the handler waits for; processBlock makes no call.
Outstanding ==
    CASE pc = "rpc" -> {"rpc:is_project_member"}
      [] pc = "owner" -> {"select:projects"}
      [] pc = "connection" -> {"select:notion_connections"}
      [] pc = "page" -> {"notion:page"}
      [] pc = "blocks" -> {"notion:blocks"}
      [] pc = "children" -> {"notion:children"}
      [] pc = "insert" -> {"insert:project_notes"}
      [] OTHER -> {}

\* Mutant of Fail: the error is swallowed and no response is returned.
FailWithoutResponse(msg) == pc' = "failed" /\ UNCHANGED response

\* Mutant of Fail: the handler stays where it is and tries again.
FailAndRetry(msg) == UNCHANGED <<pc, response>>

\* The handler returns the error response (the catch of line 343).
Fail(msg) ==
    /\ response' = ErrorResponse(msg)
    /\ pc' = "done"

\* Mutant of ParametersMissing: only userId is required.
UserIdMissing(body) == body.userId = ""

\* Line 18: !userId || !pageId || !projectId ("" stands for a field the body
\* lacks, which destructures to undefined).
ParametersMissing(body) ==
    body.userId = "" \/ body.pageId = "" \/ body.projectId = ""

\* A request arrives.
Receive ==
    /\ pc = "idle"
    /\ \/ \E m \in {"OPTIONS", "POST"}, ok \in BOOLEAN,
             u \in {"", "u1"}, p \in {"", PageOf}, j \in {"", "proj1"} :
             request' = [endpoint |-> ImportPage, method |-> m, parses |-> ok,
                         body |-> [userId |-> u, pageId |-> p, projectId |-> j]]
       \/ \E e \in Endpoints \ {ImportPage} :
             request' = [NoRequest EXCEPT !.endpoint = e, !.method = "OPTIONS"]
    /\ pc' = "received"
    /\ UNCHANGED <<otherVars, paramVars, accessVars, connectionData, notionVars, stack,
                   content, noteData, response, project_notes, calls>>

\* The first statement of every handler: if (req.method === 'OPTIONS')
\* return new Response(null, { headers: corsHeaders }).
PreflightOf(e) ==
    /\ pc = "received"
    /\ request.endpoint = e
    /\ request.method = "OPTIONS"
    /\ response' = PreflightResponse
    /\ pc' = "done"
    /\ UNCHANGED <<otherVars, request, paramVars, accessVars, connectionData, notionVars,
                   stack, content, noteData, project_notes, calls>>

\* notion-import-page, lines 11-13.
Preflight == PreflightOf(ImportPage)

\* notion-list-databases, lines 11-13.
PreflightListDatabases == PreflightOf("notion-list-databases")

\* summarize-text, lines 14-16.
PreflightSummarizeText == PreflightOf("summarize-text")

\* user-statistics, lines 19-21.
PreflightUserStatistics == PreflightOf("user-statistics")

\* The Stripe webhook, lines 76-78.
PreflightStripeWebhook == PreflightOf("stripe-webhook")

\* Lines 16-25: await req.json() and the validation.
ParseRequest ==
    /\ pc = "received"
    /\ request.endpoint = ImportPage
    /\ request.method # "OPTIONS"
    /\ \/ /\ ~request.parses
          /\ Fail(JsonError)
          /\ UNCHANGED paramVars
       \/ /\ request.parses
          /\ userId' = request.body.userId
          /\ pageId' = request.body.pageId
          /\ projectId' = request.body.projectId
          /\ IF ParametersMissing(request.body)
             THEN Fail(MissingParameters)
             ELSE pc' = "rpc" /\ UNCHANGED response
    /\ UNCHANGED <<otherVars, request, accessVars, connectionData, notionVars, stack,
                   content, noteData, project_notes, calls>>

\* Lines 28-31: the rpc answers true, false, or an error (data null, which
\* the handler tests like false).
RpcIsProjectMember ==
    /\ pc = "rpc"
    /\ \E r \in {<<TRUE, FALSE>>, <<FALSE, FALSE>>, <<FALSE, TRUE>>} :
          /\ projectAccess' = r[1]
          /\ projectError' = r[2]
          /\ calls' = Append(calls, Call("rpc:is_project_member", projectId,
                                         IF r[2] THEN "error" ELSE "ok", ""))
    /\ pc' = "owner"
    /\ UNCHANGED <<otherVars, request, paramVars, projectOwner, ownerError, connectionData,
                   notionVars, stack, content, noteData, response, project_notes>>

\* Mutant of AccessDenied: access is refused only when both queries fail.
AccessDeniedOnlyWhenBothFail(access, accessError, owner, ownerErr) ==
    accessError /\ ownerErr

\* Line 39: (projectError && ownerError) ||
\* (!projectAccess && projectOwner?.owner_id !== userId).
AccessDenied(access, accessError, owner, ownerErr) ==
    \/ accessError /\ ownerErr
    \/ ~access /\ owner.owner_id # userId

\* Lines 33-41: the owner query, then the access check.  An owner_id of ""
\* is the undefined of projectOwner?.owner_id when the query found no row.
SelectProjectOwner ==
    /\ pc = "owner"
    /\ \E r \in {<<"u1", FALSE>>, <<"u2", FALSE>>, <<"", TRUE>>} :
          /\ projectOwner' = [owner_id |-> r[1]]
          /\ ownerError' = r[2]
          /\ calls' = Append(calls, Call("select:projects", projectId,
                                         IF r[2] THEN "error" ELSE "ok", ""))
    /\ IF AccessDenied(projectAccess, projectError, projectOwner', ownerError')
       THEN Fail(NoAccess)
       ELSE pc' = "connection" /\ UNCHANGED response
    /\ UNCHANGED <<otherVars, request, paramVars, projectAccess, projectError,
                   connectionData, notionVars, stack, content, noteData,
                   project_notes>>

\* Lines 44-55.
SelectConnection ==
    /\ pc = "connection"
    /\ \/ /\ connectionData' = [access_token |-> "secret_token"]
          /\ calls' = Append(calls, Call("select:notion_connections", userId, "ok", ""))
          /\ pc' = "page"
          /\ UNCHANGED response
       \/ /\ calls' = Append(calls, Call("select:notion_connections", userId, "error", ""))
          /\ Fail(NoConnection)
          /\ UNCHANGED connectionData
    /\ UNCHANGED <<otherVars, request, paramVars, accessVars, notionVars, stack, content,
                   noteData, project_notes>>

\* Lines 58-73.
FetchPage ==
    /\ pc = "page"
    /\ \/ /\ calls' = Append(calls, Call("notion:page", pageId, "throw", ""))
          /\ Fail(NetworkError)
          /\ UNCHANGED pageData
       \/ /\ \E m \in UpstreamMessages :
                /\ calls' = Append(calls, Call("notion:page", pageId, "error", m))
                /\ Fail(NotionError(m))
          /\ UNCHANGED pageData
       \/ /\ calls' = Append(calls, Call("notion:page", pageId, "ok", ""))
          /\ \E p \in Pages : pageData' = p
          /\ pc' = "blocks"
          /\ UNCHANGED response
    /\ UNCHANGED <<otherVars, request, paramVars, accessVars, connectionData, blocksData,
                   pageTitle, stack, content, noteData, project_notes>>

\* Lines 91-305 once the blocks are there: the title resolution and the call
\* of processBlocks(blocksData.results).  has_more: Notion holds further
\* blocks of the page (drawn for the page of the scenario); the handler
\* does not read it.
BlocksFetched(lists, mores) ==
    /\ blocksData' \in [results : lists, has_more : mores]
    /\ pageTitle' = ResolveTitle(pageData, blocksData'.results)
    /\ stack' = <<Frame(blocksData'.results, 0)>>

\* Lines 76-91, the title resolution of lines 93-153 and the call of
\* processBlocks(blocksData.results) of line 305.
FetchBlocks ==
    /\ pc = "blocks"
    /\ \/ /\ calls' = Append(calls, Call("notion:blocks", pageId, "throw", ""))
          /\ Fail(NetworkError)
          /\ UNCHANGED <<blocksData, pageTitle, stack>>
       \/ /\ \E m \in UpstreamMessages :
                /\ calls' = Append(calls, Call("notion:blocks", pageId, "error", m))
                /\ Fail(NotionError(m))
          /\ UNCHANGED <<blocksData, pageTitle, stack>>
       \/ /\ calls' = Append(calls, Call("notion:blocks", pageId, "ok", ""))
          /\ \/ pageData \in TitlePages
                /\ BlocksFetched(TitleLists, {FALSE})
             \/ pageData = PlanPage /\ running # 2
                /\ BlocksFetched({PlanBlocks}, BOOLEAN)
             \/ pageData = PlanPage /\ MemberOfAnothersProject /\ Alone
                /\ BlocksFetched(KindLists, {FALSE})
             \/ pageData = PlanPage /\ MemberOfAnothersProject /\ Alone
                /\ BlocksFetched(NestedKindLists, {FALSE})
             \/ pageData = PlanPage /\ MemberOfAnothersProject /\ Alone
                /\ BlocksFetched(Forests, {FALSE})
             \/ running = 2
                /\ BlocksFetched(IF MemberOfAnothersProject
                                 THEN OtherForests ELSE {OtherBlocks}, {FALSE})
          /\ pc' = "convert"
          /\ UNCHANGED response
    /\ UNCHANGED <<otherVars, request, paramVars, accessVars, connectionData, pageData,
                   content, noteData, project_notes>>

\* Line 276: blockContent += await processBlock(block, level), then either
\* the fetch of line 282 or the next block.
ProcessBlock ==
    /\ pc = "convert"
    /\ Top.i <= Len(Top.blocks)
    /\ ~ProcessBlockThrows(CurrentBlock)
    /\ LET s == processBlock(CurrentBlock, Top.level)
       IN  IF CurrentBlock.has_children
           THEN /\ stack' = WithTop([Top EXCEPT !.blockContent = @ \o s])
                /\ pc' = "children"
           ELSE /\ stack' = WithTop(AppendAndAdvance(Top, s))
                /\ pc' = "convert"
    /\ UNCHANGED <<otherVars, request, paramVars, accessVars, connectionData, notionVars,
                   content, noteData, response, project_notes, calls>>

\* Line 276 when processBlock throws: in a nested call the error leaves the
\* call and is caught by the caller's catch (lines 294-297); in the call of
\* line 305 it reaches the handler's catch.
ProcessBlockError ==
    /\ pc = "convert"
    /\ Top.i <= Len(Top.blocks)
    /\ ProcessBlockThrows(CurrentBlock)
    /\ IF Len(stack) = 1
       THEN /\ stack' = <<>>
            /\ Fail(TypeErrorMessage)
       ELSE /\ stack' = [SubSeq(stack, 1, Len(stack) - 1)
                           EXCEPT ![Len(stack) - 1] = CatchChildren(@)]
            /\ UNCHANGED <<pc, response>>
    /\ UNCHANGED <<otherVars, request, paramVars, accessVars, connectionData, notionVars,
                   content, noteData, project_notes, calls>>

\* Lines 279-298: the fetch of the current block's children returns.
FetchChildren ==
    /\ pc = "children"
    /\ \/ /\ CurrentBlock.kids.kind = "throw"
          /\ calls' = Append(calls, Call("notion:children", CurrentBlock.id, "throw", ""))
          /\ stack' = WithTop(CatchChildren(Top))
       \/ /\ CurrentBlock.kids.kind = "http_error"
          /\ calls' = Append(calls, Call("notion:children", CurrentBlock.id, "error", ""))
          /\ stack' = WithTop(SkipChildren(Top))
       \/ /\ CurrentBlock.kids.kind = "ok"
          /\ calls' = Append(calls, Call("notion:children", CurrentBlock.id, "ok", ""))
          /\ stack' = Append(stack, Frame(CurrentBlock.kids.results, Top.level + 1))
    /\ pc' = "convert"
    /\ UNCHANGED <<otherVars, request, paramVars, accessVars, connectionData, notionVars,
                   content, noteData, response, project_notes>>

\* Line 301: return blockContent, to the caller's line 292 or to line 305.
ReturnBlocks ==
    /\ pc = "convert"
    /\ Top.i > Len(Top.blocks)
    /\ IF Len(stack) > 1
       THEN /\ stack' = [SubSeq(stack, 1, Len(stack) - 1)
                           EXCEPT ![Len(stack) - 1] =
                                    AppendAndAdvance(@, Top.blockContent)]
            /\ UNCHANGED <<pc, content>>
       ELSE /\ stack' = <<>>
            /\ content' = Top.blockContent
            /\ pc' = "insert"
    /\ UNCHANGED <<otherVars, request, paramVars, accessVars, connectionData, notionVars,
                   noteData, response, project_notes, calls>>

\* Lines 308-342: the insert and the response.
InsertNote ==
    /\ pc = "insert"
    /\ \/ LET row == NoteRow(pageTitle, content, projectId, userId, pageData, pageId)
          IN  /\ calls' = Append(calls, Call("insert:project_notes", projectId, "ok", ""))
              /\ project_notes' = Append(project_notes, row)
              /\ noteData' = row
              /\ response' = SuccessResponse(row, pageTitle)
              /\ pc' = "done"
       \/ /\ calls' = Append(calls, Call("insert:project_notes", projectId,
                                         "error", StoreMessage))
          /\ Fail("Failed to create note: " \o StoreMessage)
          /\ UNCHANGED <<project_notes, noteData>>
    /\ UNCHANGED <<otherVars, request, paramVars, accessVars, connectionData, notionVars,
                   stack, content>>

(***************************************************************************)
(* stripe-webhook: the handler of textProcessor.ts, lines 74-233           *)
(***************************************************************************)

Handlers == {1, 2}
Users == {"u1", "u2"}
Subscriptions == {"s1", "s2"}

\* The number of requests delivered in a run.
MaxEvents == 3

\* A user without a user_memberships row.
NoRow == [tier_id |-> "", stripe_subscription_id |-> "", is_active |-> FALSE]

NoEvent ==
    [type |-> "", user_id |-> "", tier_id |-> "", subscription |-> "",
     status |-> "", period |-> FALSE]

\* event.data.object of the three event types handled, and of one that is
\* not.  "" is a field the object lacks; period says whether
\* current_period_start and current_period_end are numbers.
CheckoutEvents ==
    {[NoEvent EXCEPT !.type = "checkout.session.completed", !.user_id = u,
                     !.tier_id = t, !.subscription = s, !.period = p] :
        u \in Users \cup {""}, t \in {"pro", "team"}, s \in Subscriptions,
        p \in BOOLEAN}

UpdatedEvents ==
    {[NoEvent EXCEPT !.type = "customer.subscription.updated",
                     !.subscription = s, !.status = st, !.period = p] :
        s \in Subscriptions, st \in {"active", "past_due"}, p \in BOOLEAN}

DeletedEvents ==
    {[NoEvent EXCEPT !.type = "customer.subscription.deleted", !.subscription = s] :
        s \in Subscriptions}

OtherEvents == {[NoEvent EXCEPT !.type = "invoice.paid"]}

StripeEvents == CheckoutEvents \cup UpdatedEvents \cup DeletedEvents \cup OtherEvents

\* The requests the endpoint is sent: Stripe's, signed, and others'.
HookRequests ==
    {[method |-> "POST", signature |-> "valid", event |-> e] : e \in StripeEvents}
    \cup {[method |-> m, signature |-> s,
           event |-> [NoEvent EXCEPT !.type = "checkout.session.completed",
                                     !.user_id = "u2", !.tier_id = "pro",
                                     !.subscription = "s2", !.period = TRUE]] :
            m \in {"OPTIONS", "GET", "POST"}, s \in {"", "forged"}}

HookResponse(status, error) == [status |-> status, error |-> error]
NoHookResponse == HookResponse(0, "")

\* A handler that has no request.
IdleHook ==
    [pc |-> "idle", method |-> "", signature |-> "", event |-> NoEvent,
     memberships |-> "", freeTier |-> "", response |-> NoHookResponse]

\* Mutant of Verified: every signature is accepted.
VerifiedAlways(req) == TRUE

\* Lines 110-118: stripe.webhooks.constructEvent does not throw.
Verified(req) == req.signature = "valid"

\* The handler returns a response.
Respond(hook, status, error) ==
    [hook EXCEPT !.pc = "done", !.response = HookResponse(status, error)]

\* Lines 75-130 and the synchronous head of the event's case: the handler
\* of a request up to its first store call, or to its response.
Handle(req) ==
    LET hook == [IdleHook EXCEPT !.method = req.method,
                                 !.signature = req.signature,
                                 !.event = req.event]
        e == req.event
    IN  IF req.method = "OPTIONS" THEN Respond(hook, 200, "")
        ELSE IF req.method # "POST" THEN Respond(hook, 405, "Method not allowed")
        ELSE IF req.signature = "" THEN Respond(hook, 400, "No stripe signature")
        ELSE IF ~Verified(req)
             THEN Respond(hook, 400, "Webhook Error: signature verification failed")
        ELSE CASE e.type = "checkout.session.completed" ->
                    IF e.user_id # "" /\ e.tier_id # "" /\ e.subscription # ""
                    THEN IF e.period THEN [hook EXCEPT !.pc = "upsert"]
                         ELSE Respond(hook, 500, "Invalid time value")
                    ELSE Respond(hook, 200, "")
               [] e.type = "customer.subscription.updated" ->
                    IF e.period THEN [hook EXCEPT !.pc = "update"]
                    ELSE Respond(hook, 500, "Invalid time value")
               [] e.type = "customer.subscription.deleted" ->
                    [hook EXCEPT !.pc = "select"]
               [] OTHER -> Respond(hook, 200, "")

\* The users whose membership row has the subscription id.
RowsOf(sub) ==
    {u \in Users : user_memberships[u] # NoRow
                     /\ user_memberships[u].stripe_subscription_id = sub}

\* Mutant of SingleRow: the filter on the subscription id is left out.
SingleRowOfAny(sub) ==
    LET rows == {u \in Users : user_memberships[u] # NoRow}
    IN  IF rows = {} THEN "" ELSE CHOOSE u \in rows : TRUE

\* Lines 179-183: .eq('stripe_subscription_id', id).single(): the user_id of
\* the one row, or "" (data is null) when there is none or more than one.
SingleRow(sub) ==
    IF Cardinality(RowsOf(sub)) = 1 THEN CHOOSE u \in RowsOf(sub) : TRUE ELSE ""

\* update(f).eq('stripe_subscription_id', sub) on user_memberships.
UpdateRows(sub, f(_)) ==
    [u \in Users |-> IF u \in RowsOf(sub) THEN f(user_memberships[u])
                     ELSE user_memberships[u]]

\* A request arrives at a handler that is free and runs to its first store
\* call.
Deliver(h) ==
    /\ hooks[h].pc \in {"idle", "done"}
    /\ delivered < MaxEvents
    /\ \E req \in HookRequests : hooks' = [hooks EXCEPT ![h] = Handle(req)]
    /\ delivered' = delivered + 1
    /\ UNCHANGED <<user_memberships, profiles, nonStripeVars>>

\* Lines 139-150: the upsert on user_id.
UpsertMembership(h) ==
    /\ hooks[h].pc = "upsert"
    /\ LET e == hooks[h].event
       IN  user_memberships' =
             [user_memberships EXCEPT ![e.user_id] =
                [tier_id |-> e.tier_id,
                 stripe_subscription_id |-> e.subscription,
                 is_active |-> TRUE]]
    /\ hooks' = [hooks EXCEPT ![h].pc = "profile"]
    /\ UNCHANGED <<profiles, delivered, nonStripeVars>>

\* Lines 153-156, and the response of line 221.
UpdateProfile(h) ==
    /\ hooks[h].pc = "profile"
    /\ LET e == hooks[h].event
       IN  profiles' = [profiles EXCEPT ![e.user_id] = e.tier_id]
    /\ hooks' = [hooks EXCEPT ![h] = Respond(@, 200, "")]
    /\ UNCHANGED <<user_memberships, delivered, nonStripeVars>>

\* Lines 164-171.
UpdateSubscription(h) ==
    /\ hooks[h].pc = "update"
    /\ LET e == hooks[h].event
           SetActive(row) == [row EXCEPT !.is_active = (e.status = "active")]
       IN  user_memberships' = UpdateRows(e.subscription, SetActive)
    /\ hooks' = [hooks EXCEPT ![h] = Respond(@, 200, "")]
    /\ UNCHANGED <<profiles, delivered, nonStripeVars>>

\* Lines 179-185.
SelectMembership(h) ==
    /\ hooks[h].pc = "select"
    /\ LET found == SingleRow(hooks[h].event.subscription)
       IN  hooks' = [hooks EXCEPT ![h] =
                       IF found # "" THEN [@ EXCEPT !.memberships = found, !.pc = "tier"]
                       ELSE Respond(@, 200, "")]
    /\ UNCHANGED <<user_memberships, profiles, delivered, nonStripeVars>>

\* Lines 187-191: the free tier's id, or "" when the query gives no row.
SelectFreeTier(h) ==
    /\ hooks[h].pc = "tier"
    /\ \E tier \in {"free", ""} :
          hooks' = [hooks EXCEPT ![h].freeTier = tier, ![h].pc = "deactivate"]
    /\ UNCHANGED <<user_memberships, profiles, delivered, nonStripeVars>>

\* Lines 193-201, or lines 209-213 when there is no free tier.
DeactivateMembership(h) ==
    /\ hooks[h].pc = "deactivate"
    /\ LET tier == hooks[h].freeTier
           Downgrade(row) == [row EXCEPT !.is_active = FALSE, !.tier_id = tier]
           Deactivate(row) == [row EXCEPT !.is_active = FALSE]
       IN  IF tier # ""
           THEN /\ user_memberships' = UpdateRows(hooks[h].event.subscription, Downgrade)
                /\ hooks' = [hooks EXCEPT ![h].pc = "downgrade"]
           ELSE /\ user_memberships' = UpdateRows(hooks[h].event.subscription, Deactivate)
                /\ hooks' = [hooks EXCEPT ![h] = Respond(@, 200, "")]
    /\ UNCHANGED <<profiles, delivered, nonStripeVars>>

\* Lines 204-207.
DowngradeProfile(h) ==
    /\ hooks[h].pc = "downgrade"
    /\ profiles' = [profiles EXCEPT ![hooks[h].memberships] = hooks[h].freeTier]
    /\ hooks' = [hooks EXCEPT ![h] = Respond(@, 200, "")]
    /\ UNCHANGED <<user_memberships, delivered, nonStripeVars>>

\* No request has been delivered; the store has a paying user and a user
\* without a membership.
StripeAtRest ==
    /\ hooks = [h \in Handlers |-> IdleHook]
    /\ user_memberships =
          [u \in Users |->
             IF u = "u1"
             THEN [tier_id |-> "pro", stripe_subscription_id |-> "s1",
                   is_active |-> TRUE]
             ELSE NoRow]
    /\ profiles = [u \in Users |-> IF u = "u1" THEN "pro" ELSE "free"]
    /\ delivered = 0

(***************************************************************************)
(* useProjectChat (useProjectChat.ts) and ProjectChatInput (part_004)      *)
(***************************************************************************)

\* The projects the hook is given; each is a non-empty id, so the effect's
\* if (projectId) is taken.
ChatProjects == {"p1", "p2"}

\* What the input holds when a send is asked for.
Inputs == {"hello", "  "}

\* The number of messages sent in a run.
MaxSends == 3

\* A message of the list.  project is the project the hook had when the
\* message was sent; the code's Message has role and content only.
Message(role, content_, project) ==
    [role |-> role, content |-> content_, project |-> project]

\* Lines 67-104 up to the await: sendMessage(messageContent).
sendMessage(messageContent) ==
    IF Trim(messageContent) = "" \/ authUser = ""
    THEN UNCHANGED <<messages, isLoading, inflight, sent>>
    ELSE /\ messages' = Append(messages, Message("user", messageContent,
                                                 currentProjectId))
         /\ isLoading' = TRUE
         /\ inflight' = inflight \cup
                          {[id |-> sent + 1, projectId |-> currentProjectId,
                            message |-> messageContent,
                            description |-> projectData]}
         /\ sent' = sent + 1

\* part_004, lines 157-161: handleSend.
handleSend(input) ==
    IF Trim(input) = ""
    THEN UNCHANGED <<messages, isLoading, inflight, sent>>
    ELSE sendMessage(input)

\* part_004, lines 181-185: the button, disabled while isLoading or the
\* input is blank.
ClickSend ==
    /\ sent < MaxSends
    /\ ~isLoading
    /\ \E input \in Inputs : Trim(input) # "" /\ handleSend(input)
    /\ UNCHANGED <<currentProjectId, projectData, fetching, authUser, nonChatVars>>

\* part_004, lines 163-168: Enter in the textarea, which is never disabled.
PressEnter ==
    /\ sent < MaxSends
    /\ \E input \in Inputs : handleSend(input)
    /\ UNCHANGED <<currentProjectId, projectData, fetching, authUser, nonChatVars>>

\* Lines 80-94: a request's reply arrives.
ReplyArrives ==
    /\ \E r \in inflight :
          /\ messages' = Append(messages, Message("assistant", "re: " \o r.message,
                                                  r.projectId))
          /\ inflight' = inflight \ {r}
    /\ isLoading' = FALSE
    /\ UNCHANGED <<currentProjectId, projectData, fetching, sent, authUser, nonChatVars>>

\* Lines 95-103: a request fails.
RequestFails ==
    /\ \E r \in inflight : inflight' = inflight \ {r}
    /\ isLoading' = FALSE
    /\ UNCHANGED <<currentProjectId, messages, projectData, fetching, sent, authUser,
                   nonChatVars>>

\* Lines 31-65: the hook is rendered with another projectId and the effect
\* runs: the messages are reset and the project's data is asked for.
ChangeProject ==
    /\ \E p \in ChatProjects \ {currentProjectId} :
          /\ currentProjectId' = p
          /\ fetching' = fetching \cup {p}
    /\ messages' = <<>>
    /\ UNCHANGED <<isLoading, projectData, inflight, sent, authUser, nonChatVars>>

\* Lines 34-50: fetchProjectData gets its row.
ProjectDataLoaded ==
    /\ \E p \in fetching :
          /\ fetching' = fetching \ {p}
          /\ projectData' = p
    /\ UNCHANGED <<currentProjectId, messages, isLoading, inflight, sent, authUser,
                   nonChatVars>>

\* Lines 40 and 51-53: the query fails.
ProjectDataFails ==
    /\ \E p \in fetching : fetching' = fetching \ {p}
    /\ UNCHANGED <<currentProjectId, messages, isLoading, projectData, inflight, sent,
                   authUser, nonChatVars>>

\* Lines 22-26 and the effect's first run: the hook mounted on the first
\* project.
ChatMounted ==
    /\ currentProjectId = "p1"
    /\ messages = <<>>
    /\ isLoading = FALSE
    /\ projectData = ""
    /\ fetching = {"p1"}
    /\ inflight = {}
    /\ sent = 0

\* The hook mounted by a signed-in user, nothing sent.
ChatAtRest == ChatMounted /\ authUser = "u1"

(***************************************************************************)
(* user-statistics (index.ts)                                              *)
(***************************************************************************)

\* The number of projects of the store.
MaxProjects == 2

ProjectIds == {<<"a", "b", "c", "d">>[i] : i \in 1..MaxProjects}

\* A project id without a row in projects.
NoProject == [owner_id |-> "", is_archived |-> FALSE]

ProjectRows == [owner_id : {"u1", "u2"}, is_archived : BOOLEAN]

MemberRows == [project_id : ProjectIds, user_id : {"u1", "u2"}]

\* The stores: projects by id, and the project_members rows of projects
\* that exist.
Stores ==
    {st \in [projects : [ProjectIds -> ProjectRows \cup {NoProject}],
             project_members : SUBSET MemberRows] :
        \A m \in st.project_members : st.projects[m.project_id] # NoProject}

NoStatsResponse ==
    [status |-> 0, apiCalls |-> 0, ownedBrains |-> 0, sharedBrains |-> 0,
     documents |-> 0, hasProSubscription |-> FALSE, maxBrains |-> "",
     maxApiCalls |-> "", message |-> ""]

\* The handler before a request: its position, its locals and its response.
\* ownedNull is ownedProjects being null; sharedIds is the list whose length
\* becomes sharedProjectsCount.
StatisticsAtStart ==
    [pc |-> "idle", userId |-> "", apiCallCount |-> 0,
     ownedProjects |-> {}, ownedNull |-> TRUE,
     ownedProjectsCount |-> 0, sharedIds |-> {}, sharedProjectsCount |-> 0,
     documentsCount |-> 0, response |-> NoStatsResponse]

\* Lines 30-89: the user id comes from the body or from the token, or the
\* request is refused.
ResolveUser ==
    /\ statistics.pc = "idle"
    /\ \/ statistics' = [statistics EXCEPT !.userId = "u1", !.pc = "api"]
       \/ statistics' = [statistics EXCEPT
                           !.pc = "done",
                           !.response = [NoStatsResponse EXCEPT
                                           !.status = 401,
                                           !.message = "Authentication failed"]]
    /\ UNCHANGED <<projects, project_members, nonStatsVars>>

\* Lines 95-112: the count of API calls, 0 when the query fails.
CountApiCalls ==
    /\ statistics.pc = "api"
    /\ \E count \in {0, 2} :
          statistics' = [statistics EXCEPT !.apiCallCount = count, !.pc = "owned"]
    /\ UNCHANGED <<projects, project_members, nonStatsVars>>

\* .from('projects').select('id').eq('owner_id', user).eq('is_archived', false)
OwnedProjectsOf(user) ==
    {id \in ProjectIds : /\ projects[id] # NoProject
                         /\ projects[id].owner_id = user
                         /\ ~projects[id].is_archived}

\* .from('project_members').select('project_id').eq('user_id', user)
MemberIdsOf(user) ==
    {m.project_id : m \in {r \in project_members : r.user_id = user}}

\* Lines 118-129: the owned projects; the query answers, fails or throws
\* (line 152 then skips the members query).
SelectOwnedProjects ==
    /\ statistics.pc = "owned"
    /\ \/ LET owned == OwnedProjectsOf(statistics.userId)
          IN  statistics' = [statistics EXCEPT
                               !.ownedProjects = owned, !.ownedNull = FALSE,
                               !.ownedProjectsCount = Cardinality(owned),
                               !.pc = "members"]
       \/ statistics' = [statistics EXCEPT !.pc = "members"]
       \/ statistics' = [statistics EXCEPT !.pc = "documents"]
    /\ UNCHANGED <<projects, project_members, nonStatsVars>>

\* Lines 142-149: the ids whose number is sharedProjectsCount.
SharedIds(memberIds, ownedNull, ownedIds) ==
    IF memberIds # {} /\ ~ownedNull
    THEN {id \in memberIds : id \notin ownedIds}
    ELSE memberIds

\* Lines 131-154: the member projects; the query answers, or fails or throws.
SelectMemberProjects ==
    /\ statistics.pc = "members"
    /\ \/ LET ids == SharedIds(MemberIdsOf(statistics.userId),
                               statistics.ownedNull, statistics.ownedProjects)
          IN  statistics' = [statistics EXCEPT
                               !.sharedIds = ids,
                               !.sharedProjectsCount = Cardinality(ids),
                               !.pc = "documents"]
       \/ statistics' = [statistics EXCEPT !.pc = "documents"]
    /\ UNCHANGED <<projects, project_members, nonStatsVars>>

\* Lines 157-171: the count of documents, 0 when the query fails.
CountDocuments ==
    /\ statistics.pc = "documents"
    /\ \E count \in {0, 1} :
          statistics' = [statistics EXCEPT !.documentsCount = count,
                                           !.pc = "subscription"]
    /\ UNCHANGED <<projects, project_members, nonStatsVars>>

\* Lines 174-213: the subscription check and the response.  JSON.stringify
\* writes Infinity as null.
CheckSubscription ==
    /\ statistics.pc = "subscription"
    /\ \E hasProSubscription \in BOOLEAN :
          statistics' =
             [statistics EXCEPT
                !.pc = "done",
                !.response =
                   [status |-> 200,
                    apiCalls |-> statistics.apiCallCount,
                    ownedBrains |-> statistics.ownedProjectsCount,
                    sharedBrains |-> statistics.sharedProjectsCount,
                    documents |-> statistics.documentsCount,
                    hasProSubscription |-> hasProSubscription,
                    maxBrains |-> IF hasProSubscription THEN "null" ELSE "5",
                    maxApiCalls |-> IF hasProSubscription THEN "null" ELSE "50",
                    message |-> ""]]
    /\ UNCHANGED <<projects, project_members, nonStatsVars>>

\* No request for statistics; an empty store.
StatsAtRest ==
    /\ statistics = StatisticsAtStart
    /\ projects = [id \in ProjectIds |-> NoProject]
    /\ project_members = {}

FormatAtRest == text = "" /\ prev = "" /\ orig = "" /\ passes = 0

\* One request: nothing is parked.
OneRequest == running = 0 /\ parked = <<>>

Init ==
    /\ ImportAtRest
    /\ FormatAtRest
    /\ OneRequest
    /\ StripeAtRest
    /\ ChatAtRest
    /\ StatsAtRest

Next ==
    \/ Receive
    \/ Preflight
    \/ PreflightListDatabases
    \/ PreflightSummarizeText
    \/ PreflightUserStatistics
    \/ PreflightStripeWebhook
    \/ ParseRequest
    \/ RpcIsProjectMember
    \/ SelectProjectOwner
    \/ SelectConnection
    \/ FetchPage
    \/ FetchBlocks
    \/ ProcessBlock
    \/ ProcessBlockError
    \/ FetchChildren
    \/ ReturnBlocks
    \/ InsertNote

Spec == Init /\ [][Next]_vars

(***************************************************************************)
(* Two requests in one isolate.  The runtime runs one handler at a time    *)
(* and switches only where the running one is suspended at an await (or    *)
(* has not started, or has returned): the variables of the handler hold    *)
(* the locals of the running request, `parked` those of the other.         *)
(***************************************************************************)
\* Mutant of SwapLocals: content is a variable of the module, which the two
\* requests share.
SwapLocalsSharingContent ==
    /\ parked' = localVars
    /\ pc' = parked[1]
    /\ request' = parked[2]
    /\ userId' = parked[3]
    /\ pageId' = parked[4]
    /\ projectId' = parked[5]
    /\ projectAccess' = parked[6]
    /\ projectError' = parked[7]
    /\ projectOwner' = parked[8]
    /\ ownerError' = parked[9]
    /\ connectionData' = parked[10]
    /\ pageData' = parked[11]
    /\ blocksData' = parked[12]
    /\ pageTitle' = parked[13]
    /\ stack' = parked[14]
    /\ UNCHANGED content
    /\ noteData' = parked[16]
    /\ response' = parked[17]
    /\ calls' = parked[18]

\* Every variable the handler writes is declared inside serve's callback
\* (lines 16-308), so each invocation has its own.
SwapLocals ==
    /\ parked' = localVars
    /\ pc' = parked[1]
    /\ request' = parked[2]
    /\ userId' = parked[3]
    /\ pageId' = parked[4]
    /\ projectId' = parked[5]
    /\ projectAccess' = parked[6]
    /\ projectError' = parked[7]
    /\ projectOwner' = parked[8]
    /\ ownerError' = parked[9]
    /\ connectionData' = parked[10]
    /\ pageData' = parked[11]
    /\ blocksData' = parked[12]
    /\ pageTitle' = parked[13]
    /\ stack' = parked[14]
    /\ content' = parked[15]
    /\ noteData' = parked[16]
    /\ response' = parked[17]
    /\ calls' = parked[18]

Switch ==
    /\ running \in {1, 2}
    /\ running' = 3 - running
    /\ SwapLocals
    /\ UNCHANGED <<project_notes, fmtVars, stripeVars, chatVars, statsVars>>

\* The locals of a request that has not arrived.
LocalsAtRest ==
    <<"idle", NoRequest, "", "", "", FALSE, FALSE, [owner_id |-> ""], FALSE,
      [access_token |-> ""], NoPage, [results |-> <<>>, has_more |-> FALSE],
      "", <<>>, "", NoNote, NoResponse, <<>>>>

InitTwo ==
    /\ ImportAtRest
    /\ FormatAtRest
    /\ running = 1
    /\ parked = LocalsAtRest
    /\ StripeAtRest
    /\ ChatAtRest
    /\ StatsAtRest

NextTwo == Next \/ Switch

SpecTwo == InitTwo /\ [][NextTwo]_vars

\* The steps of a handler, as opposed to the arrival of a request.
HandlerStep ==
    \/ Preflight
    \/ PreflightListDatabases
    \/ PreflightSummarizeText
    \/ PreflightUserStatistics
    \/ PreflightStripeWebhook
    \/ ParseRequest
    \/ RpcIsProjectMember
    \/ SelectProjectOwner
    \/ SelectConnection
    \/ FetchPage
    \/ FetchBlocks
    \/ ProcessBlock
    \/ ProcessBlockError
    \/ FetchChildren
    \/ ReturnBlocks
    \/ InsertNote

\* Every awaited call settles (it returns or throws) and the runtime then
\* resumes the handler: a handler that can take a step eventually does.
SpecLive == Spec /\ WF_vars(HandlerStep)

(***************************************************************************)
(* The texts the formatting pass is applied to.                            *)
(***************************************************************************)
MaxLen == 5
MaxPasses == 2

InputChars == {"\n", " ", "-", "#", "a"}

RECURSIVE TextsOfLen(_)
TextsOfLen(n) ==
    IF n = 0 THEN {""}
    ELSE {s \o c : s \in TextsOfLen(n - 1), c \in InputChars}

\* Two paragraphs, or a paragraph and a heading or list item, with a run of
\* up to MaxRun newlines between them.
MaxRun == 5

RECURSIVE Newlines(_)
Newlines(n) == IF n = 0 THEN "" ELSE NL \o Newlines(n - 1)

RunTexts ==
    {x \o Newlines(n) \o y :
        n \in 0..MaxRun, x \in {"a", "# a"}, y \in {"b", "- b", "# b"}}

Texts == UNION {TextsOfLen(n) : n \in 0..MaxLen} \cup RunTexts

InitFormat ==
    /\ orig \in Texts
    /\ text = orig
    /\ prev = orig
    /\ passes = 0
    /\ ImportAtRest
    /\ OneRequest
    /\ StripeAtRest
    /\ ChatAtRest
    /\ StatsAtRest

\* summary = formatSummaryText(summary)
Format ==
    /\ passes < MaxPasses
    /\ text' = formatSummaryText(text)
    /\ prev' = text
    /\ passes' = passes + 1
    /\ UNCHANGED orig

NextFormat == Format /\ UNCHANGED nonFormatVars

SpecFormat == InitFormat /\ [][NextFormat]_vars

(***************************************************************************)
(* The webhook's handlers, run concurrently                                *)
(***************************************************************************)

InitStripe ==
    /\ StripeAtRest
    /\ ChatAtRest
    /\ StatsAtRest
    /\ ImportAtRest
    /\ FormatAtRest
    /\ OneRequest

NextStripe ==
    \E h \in Handlers :
       \/ Deliver(h)
       \/ UpsertMembership(h)
       \/ UpdateProfile(h)
       \/ UpdateSubscription(h)
       \/ SelectMembership(h)
       \/ SelectFreeTier(h)
       \/ DeactivateMembership(h)
       \/ DowngradeProfile(h)

SpecStripe == InitStripe /\ [][NextStripe]_vars

(***************************************************************************)
(* The chat hook, and the statistics handler over every store              *)
(***************************************************************************)

InitChat ==
    /\ ChatMounted
    /\ authUser \in {"", "u1"}
    /\ StatsAtRest
    /\ StripeAtRest
    /\ ImportAtRest
    /\ FormatAtRest
    /\ OneRequest

NextChat ==
    \/ ClickSend
    \/ PressEnter
    \/ ReplyArrives
    \/ RequestFails
    \/ ChangeProject
    \/ ProjectDataLoaded
    \/ ProjectDataFails

SpecChat == InitChat /\ [][NextChat]_vars

InitStats ==
    /\ statistics = StatisticsAtStart
    /\ \E st \in Stores :
          /\ projects = st.projects
          /\ project_members = st.project_members
    /\ ChatAtRest
    /\ StripeAtRest
    /\ ImportAtRest
    /\ FormatAtRest
    /\ OneRequest

NextStats ==
    \/ ResolveUser
    \/ CountApiCalls
    \/ SelectOwnedProjects
    \/ SelectMemberProjects
    \/ CountDocuments
    \/ CheckSubscription

SpecStats == InitStats /\ [][NextStats]_vars



(***************************************************************************)
(* Properties of notion-import-page (specification Spec).                  *)
(***************************************************************************)
Done == pc = "done"
Succeeded == Done /\ response.status = 200 /\ response.kind = "json"
LastCall == calls[Len(calls)]
InsertIssued == calls # <<>> /\ LastCall.api = "insert:project_notes"
\* The title has been resolved: the blocks fetch returned ok.
TitleResolved ==
    \E i \in 1..Len(calls) : calls[i].api = "notion:blocks" /\ calls[i].status = "ok"

\* C1: every request that is not a preflight ends in exactly one of two
\* ways: one row inserted and a 200 {success: true, note, message}, or no row
\* inserted and a 400 {success: false, error}; until it has ended nothing is
\* inserted.
C1_AllOrNothing ==
    /\ ~Done => project_notes = <<>> /\ response = NoResponse
    /\ Done /\ request.method # "OPTIONS" =>
         \/ /\ response.status = 200
            /\ response.success
            /\ Len(project_notes) = 1
            /\ response.note = project_notes[1]
            /\ response.message # ""
            /\ response.error = ""
         \/ /\ response.status = 400
            /\ ~response.success
            /\ response.error # ""
            /\ project_notes = <<>>
            /\ response.note = NoNote

\* A request whose insert failed: a 400 although the insert was attempted.
C1_Witness ==
    Done /\ InsertIssued /\ LastCall.status = "error" /\ response.status = 400

\* The blocks of a forest, through the children the fetches return, whose
\* own children fetch ends as `kind`: for each, the block's own fragment and
\* its next sibling's ("" when it is the last of its list).
RECURSIVE Sites(_, _, _)
Sites(blocks, level, kind) ==
    UNION {
      LET b == blocks[i]
      IN  (IF b.kids.kind = kind
           THEN {[own |-> processBlock(b, level),
                  next |-> IF i < Len(blocks)
                           THEN processBlock(blocks[i + 1], level) ELSE ""]}
           ELSE {})
          \cup
          (IF b.kids.kind = "ok" THEN Sites(b.kids.results, level + 1, kind) ELSE {})
      : i \in 1..Len(blocks)}

\* Every block of the forest has the payload of its type.
RECURSIVE WellFormed(_)
WellFormed(blocks) ==
    \A i \in 1..Len(blocks) :
       /\ blocks[i].payload
       /\ blocks[i].kids.kind = "ok" => WellFormed(blocks[i].kids.results)

\* C2: when children fetches throw and nothing else fails (the blocks are
\* well formed and the insert succeeds), the request ends with a 200 and a
\* persisted note, and the document holds the placeholder right after the
\* fragment of each block whose fetch threw and right before the fragment
\* of its next sibling.
C2_NestedThrowDegrades ==
    ( /\ Done
      /\ TitleResolved
      /\ Sites(blocksData.results, 0, "throw") # {}
      /\ WellFormed(blocksData.results)
      /\ ~(InsertIssued /\ LastCall.status = "error") )
    => /\ response.status = 200
       /\ response.success
       /\ Len(project_notes) = 1
       /\ \A s \in Sites(blocksData.results, 0, "throw") :
             Contains(content, s.own \o "\n\n*[Error loading nested content]*\n\n" \o s.next)
       /\ Contains(project_notes[1].content, "*[Error loading nested content]*")

\* A successful import one of whose nested blocks (level 1) has a children
\* fetch that threw, and which has a next sibling.
C2_Witness ==
    /\ Succeeded
    /\ \E i \in 1..Len(calls) :
          /\ calls[i].api = "notion:children"
          /\ calls[i].status = "throw"
          /\ calls[i].id = "b1.1"
    /\ \E s \in Sites(blocksData.results, 0, "throw") : s.next # ""

\* C3 as stated: a children fetch answered with a status that is not ok
\* leaves the placeholder at the block's position.
C3_HttpErrorPlaceholder ==
    Succeeded =>
      \A s \in Sites(blocksData.results, 0, "http_error") :
         Contains(content, s.own \o "\n\n*[Error loading nested content]*\n\n" \o s.next)

\* C4: a page fetch or a top-level blocks fetch answered with a status that
\* is not ok is the last call of the request, which ends with a 400 whose
\* error carries the upstream message, and no note is inserted.
C4_TopLevelErrorAborts ==
    \A i \in 1..Len(calls) :
       (calls[i].api \in {"notion:page", "notion:blocks"} /\ calls[i].status = "error")
       => /\ i = Len(calls)
          /\ Done
          /\ response.status = 400
          /\ ~response.success
          /\ response.error = "Notion API error: "
                                \o (IF calls[i].message # "" THEN calls[i].message
                                    ELSE "Unknown error")
          /\ project_notes = <<>>

\* The blocks fetch was answered with an error that has a message.
C4_Witness ==
    /\ calls # <<>>
    /\ LastCall.api = "notion:blocks"
    /\ LastCall.status = "error"
    /\ LastCall.message = "Could not find page"

\* t is s without the white space at its two ends.
IsTrimOf(t, s) ==
    /\ t # "" => CharAt(t, 1) \notin WhiteSpace /\ CharAt(t, Len(t)) \notin WhiteSpace
    /\ \E i \in 0..Len(s) : \E j \in i..Len(s) :
          /\ SubSeq(s, i + 1, j) = t
          /\ \A k \in (1..i) \cup ((j + 1)..Len(s)) : CharAt(s, k) \in WhiteSpace

\* The end-to-end scenario has been imported.
PlanImported ==
    Succeeded /\ pageData = PlanPage /\ blocksData.results = PlanBlocks

C6_NoTripleNewline ==
    Succeeded => ~Contains(project_notes[1].content, "\n\n\n")

\* The text of the property tiers as the claim orders them: the property
\* named title, the property named Name, the first property of type title
\* that has a title array.
TierTexts(props) ==
    <<IF Named(props, "title") # <<>>
      THEN JoinPlainText(Named(props, "title")[1].title) ELSE "",
      IF Named(props, "Name") # <<>>
      THEN JoinPlainText(Named(props, "Name")[1].title) ELSE "",
      IF FirstTitleTyped(props) # <<>>
      THEN JoinPlainText(FirstTitleTyped(props)[1].title) ELSE "">>

\* C7 as stated: the title is the text of the first property tier that
\* yields text, a tier without text being skipped.
C7_FirstTierWithText ==
    TitleResolved =>
      LET tiers == TierTexts(pageData.properties)
      IN  \A k \in 1..3 :
             (tiers[k] # "" /\ \A j \in 1..(k - 1) : tiers[j] = "")
             => pageTitle = tiers[k]

\* No property of the page gives the title.
NoPropertyTitle == TitleResolved /\ PropertyTitle(pageData.properties) = ""

\* A text of more than 40 characters cut to its first 40 and "...".
CutTo40(t) == IF Len(t) > 40 THEN SubSeq(t, 1, 40) \o "..." ELSE t

\* A block has text when its first run has (the handler's test).
HeadingsWithText ==
    SelectSeq(blocksData.results,
              LAMBDA b : /\ b.type = "heading_1"
                         /\ b.rich_text # <<>>
                         /\ b.rich_text[1] # "")

ParagraphsWithText ==
    SelectSeq(blocksData.results,
              LAMBDA b : /\ b.type = "paragraph"
                         /\ b.rich_text # <<>>
                         /\ b.rich_text[1] # "")

\* C8 as stated: without a property title, the first heading_1 with text
\* gives the title wherever it stands, a paragraph only when there is none.
C8_HeadingBeforeParagraph ==
    NoPropertyTitle =>
      /\ HeadingsWithText # <<>> =>
           pageTitle = JoinPlainText(HeadingsWithText[1].rich_text)
      /\ (HeadingsWithText = <<>> /\ ParagraphsWithText # <<>>) =>
           pageTitle = CutTo40(JoinPlainText(ParagraphsWithText[1].rich_text))

\* The blocks the title can come from: a heading_1 or a paragraph whose
\* first run is not empty.
TitleCandidates ==
    SelectSeq(blocksData.results,
              LAMBDA b : /\ b.type \in {"heading_1", "paragraph"}
                         /\ b.rich_text # <<>>
                         /\ b.rich_text[1] # "")

\* C8 amended: without a property title, the title comes from the first
\* block, in document order, that is a heading_1 or a paragraph whose first
\* run has text: the heading's text, or the paragraph's text cut to 40
\* characters and "..." when it is longer; a heading after such a paragraph
\* is not used.
C8_FirstHeadingOrParagraph ==
    (NoPropertyTitle /\ TitleCandidates # <<>>) =>
      LET b == TitleCandidates[1]
          t == JoinPlainText(b.rich_text)
      IN  pageTitle = IF b.type = "paragraph" THEN CutTo40(t) ELSE t

\* A paragraph with text stands before a heading_1 with text, and no
\* property gives the title.
C8_Witness ==
    /\ NoPropertyTitle
    /\ Len(blocksData.results) = 2
    /\ blocksData.results[1].type = "paragraph"
    /\ blocksData.results[1].rich_text = <<"Para">>
    /\ blocksData.results[2].type = "heading_1"
    /\ blocksData.results[2].rich_text = <<"Head", "ing">>
    /\ pageTitle = "Para"

\* C9: once resolved the title is never empty, the note is persisted with
\* it, and when no property and no heading_1 or paragraph block has text
\* it is the generated "Notion Page (<date>)".
C9_TitleNeverEmpty ==
    TitleResolved =>
      /\ pageTitle # ""
      /\ Succeeded => project_notes[1].title = pageTitle
      /\ ( /\ \A i \in 1..Len(pageData.properties) :
                 JoinPlainText(pageData.properties[i].title) = ""
           /\ \A i \in 1..Len(blocksData.results) :
                 blocksData.results[i].type \in {"heading_1", "paragraph"}
                 => JoinPlainText(blocksData.results[i].rich_text) = "" )
         => pageTitle = "Notion Page (" \o Today \o ")"

\* A note persisted under the generated title, for a page whose title
\* property has only an empty run.
C9_Witness ==
    /\ Succeeded
    /\ project_notes[1].title = "Notion Page (" \o Today \o ")"
    /\ Named(pageData.properties, "title") # <<>>
    /\ Named(pageData.properties, "title")[1].title = <<"">>

(***************************************************************************)
(* Properties of formatSummaryText (specification SpecFormat).             *)
(***************************************************************************)
\* C10 as stated: a second application of the formatting pass changes
\* nothing.
C10_Idempotent == passes = 2 => text = prev

\* C11: a run of four or more newlines between two non-whitespace characters
\* of the input leaves exactly two newlines between them in the output of
\* the formatting pass.
C11_FourNewlinesBecomeTwo ==
    \A n \in 4..MaxRun :
        passes = 1 /\ orig = "a" \o Newlines(n) \o "b" => text = "a\n\nb"

\* The position after a heading line that starts at position i of s (one to
\* six '#', a space or tab, then text up to the end of the line); 0 when
\* no heading line starts at i.
HeadingLineEnd(s, i) ==
    LET h == RunIn(s, i, {"#"})
        t == RunNotIn(s, i + h + 1, {NL})
    IN  IF /\ AtLineStart(s, i)
           /\ h >= 1 /\ h <= 6
           /\ i + h <= Len(s)
           /\ CharAt(s, i + h) \in {" ", "\t"}
           /\ t >= 1
        THEN i + h + 1 + t ELSE 0

\* C22: in the output of the formatting pass every heading line that has
\* content after it is followed by a blank line; and a heading followed by
\* a paragraph in the input comes out as the heading on its own line, a
\* blank line, and the paragraph.
C22_BlankLineAfterHeading ==
    passes = 1 =>
        /\ \A i \in 1..Len(text) :
              LET e == HeadingLineEnd(text, i)
              IN  (e > 0 /\ e <= Len(text)) => SubSeq(text, e, e + 1) = "\n\n"
        /\ \A n \in 1..MaxRun :
              orig = "# a" \o Newlines(n) \o "b" => text = "# a\n\nb"

(***************************************************************************)
(* Further properties of notion-import-page (specification Spec).          *)
(***************************************************************************)
\* The request is not a preflight, its body parses, and the body lacks one
\* of the three parameters.
LacksParameter ==
    /\ request.method = "POST"
    /\ request.parses
    /\ \E f \in {"userId", "pageId", "projectId"} : request.body[f] = ""

\* C12: a request whose body lacks userId, pageId or projectId is answered
\* 400 with the missing-parameters error, and no store query, Notion call
\* or note insert is made for it at any time.
C12_MissingParameters ==
    LacksParameter =>
        /\ calls = <<>>
        /\ project_notes = <<>>
        /\ Done => response = [status |-> 400, kind |-> "json", cors |-> TRUE,
                               success |-> FALSE, note |-> NoNote,
                               message |-> "",
                               error |-> "Missing required parameters: userId, pageId, and projectId"]

\* A request that has only its pageId missing has been answered.
C12_Witness ==
    /\ Done
    /\ request.method = "POST" /\ request.parses
    /\ request.body = [userId |-> "u1", pageId |-> "", projectId |-> "proj1"]
    /\ response.status = 400

\* The call of processBlocks on top of the stack has converted its first
\* block, a block without children, and nothing else: its blockContent is
\* that block's fragment.
FirstConverted ==
    /\ pc = "convert"
    /\ stack # <<>>
    /\ Top.i = 2
    /\ ~Top.blocks[1].has_children

\* The kinds that give a fragment only when they have rich text.
KindsRequiringText == TextKinds \ {"paragraph"}

\* C13: a paragraph with an empty rich-text array gives the indent followed
\* by two newlines; a block of a kind that requires text gives the empty
\* fragment when its rich-text array is empty.
C13_EmptyRichText ==
    FirstConverted /\ Top.blocks[1].rich_text = <<>> =>
        /\ Top.blocks[1].type = "paragraph" =>
              Top.blockContent = Indent(Top.level) \o "\n\n"
        /\ Top.blocks[1].type \in KindsRequiringText =>
              Top.blockContent = ""

\* An empty paragraph one level down has been converted.
C13_Witness ==
    /\ FirstConverted
    /\ Top.level = 1
    /\ Top.blocks[1].type = "paragraph"
    /\ Top.blocks[1].rich_text = <<>>
    /\ Top.blockContent = "  \n\n"

\* C14 as stated: the fragment of every to_do block contains "[x]" when the
\* block is checked and "[ ]" when it is not.
C14_EveryToDoHasCheckbox ==
    FirstConverted /\ Top.blocks[1].type = "to_do" =>
        Contains(Top.blockContent,
                 IF Top.blocks[1].checked THEN "[x]" ELSE "[ ]")

\* C14: the fragment of a to_do block with rich text is the indent, "- ",
\* the checkbox ("[x]" when checked, "[ ]" when not), a space, the text and
\* a newline; a to_do block with an empty rich-text array gives the empty
\* fragment, without a checkbox.
C14_ToDoWithTextHasCheckbox ==
    FirstConverted /\ Top.blocks[1].type = "to_do" =>
        LET b == Top.blocks[1]
        IN  IF b.rich_text = <<>>
            THEN Top.blockContent = ""
            ELSE Top.blockContent =
                   Indent(Top.level) \o "- "
                     \o (IF b.checked THEN "[x]" ELSE "[ ]")
                     \o " " \o JoinPlainText(b.rich_text) \o "\n"

\* A checked to_do block with text has been converted.
C14_Witness ==
    /\ FirstConverted
    /\ Top.blocks[1].type = "to_do"
    /\ Top.blocks[1].checked
    /\ Top.blocks[1].rich_text # <<>>
    /\ Contains(Top.blockContent, "[x]")

\* The first n runs of a rich-text array, written one after the other.
RECURSIVE RunsUpTo(_, _)
RunsUpTo(rt, n) == IF n = 0 THEN "" ELSE RunsUpTo(rt, n - 1) \o rt[n]

RunsInOrder(rt) == RunsUpTo(rt, Len(rt))

\* C15: the text taken from a rich-text array is its runs in array order
\* with nothing between them, none dropped: a block with several runs gives
\* the fragment of the same block with the one run that joins them, and a
\* title from the property named title or from a heading_1 is the joined
\* runs of that array.
C15_RunsConcatenated ==
    /\ (/\ FirstConverted
        /\ Top.blocks[1].type \in TextKinds
        /\ Top.blocks[1].rich_text # <<>>) =>
           LET b == Top.blocks[1]
               t == RunsInOrder(b.rich_text)
           IN  /\ Contains(Top.blockContent, t)
               /\ Top.blockContent =
                    processBlock([b EXCEPT !.rich_text = <<t>>], Top.level)
    /\ (TitleResolved /\ HasTitleArray(pageData.properties, "title")) =>
           LET t == RunsInOrder(Named(pageData.properties, "title")[1].title)
           IN  t # "" => pageTitle = t
    /\ (/\ NoPropertyTitle
        /\ TitleCandidates # <<>>
        /\ TitleCandidates[1].type = "heading_1") =>
           pageTitle = RunsInOrder(TitleCandidates[1].rich_text)

\* A quote of two runs has been converted one level down.
C15_Witness ==
    /\ FirstConverted
    /\ Top.level = 1
    /\ Top.blocks[1].type = "quote"
    /\ Top.blocks[1].rich_text = <<"a", "b">>
    /\ Top.blockContent = "  > ab\n\n"

\* C16: on every endpoint an OPTIONS request is answered with an empty body
\* and the CORS headers, and no store read or write and no external call is
\* made for it at any time.
C16_PreflightTouchesNothing ==
    request.method = "OPTIONS" =>
        /\ request.endpoint \in Endpoints
        /\ calls = <<>>
        /\ project_notes = <<>>
        /\ Done => response = [status |-> 200, kind |-> "empty", cors |-> TRUE,
                               success |-> FALSE, note |-> NoNote,
                               message |-> "", error |-> ""]

\* The preflight of the Stripe webhook has been answered.
C16_Witness ==
    /\ Done
    /\ request.endpoint = "stripe-webhook"
    /\ request.method = "OPTIONS"
    /\ response.kind = "empty"
    /\ response.cors

\* The document of a forest, read off the tree: for each block in list
\* order its fragment at this level, then what its children fetch gave (the
\* document of the children one level down, or the placeholder when the
\* fetch threw, or nothing), then its next sibling.
RECURSIVE PreOrder(_, _)
PreOrder(blocks, level) ==
    IF blocks = <<>> THEN ""
    ELSE LET b == Head(blocks)
         IN  processBlock(b, level)
               \o (CASE b.kids.kind = "ok" -> PreOrder(b.kids.results, level + 1)
                     [] b.kids.kind = "throw" -> "\n\n*[Error loading nested content]*\n\n"
                     [] OTHER -> "")
               \o PreOrder(Tail(blocks), level)

\* The number of spaces a text starts with.
RECURSIVE LeadingSpaces(_)
LeadingSpaces(s) ==
    IF s = "" \/ Head(s) # " " THEN 0 ELSE 1 + LeadingSpaces(Tail(s))

\* processBlocks(blocksData.results) has returned.
Converted == pc = "insert" \/ InsertIssued

\* C17: the assembled document is the fragments of the blocks in depth-first
\* pre-order: a block's fragment, then its children's at level + 1, then its
\* next sibling's, none moved, repeated or left out (blocks that convert
\* without throwing); and a fragment starts with exactly two spaces per
\* nesting level.
C17_PreOrderDocument ==
    /\ (Converted /\ WellFormed(blocksData.results)) =>
          content = PreOrder(blocksData.results, 0)
    /\ (FirstConverted /\ Top.blockContent # "") =>
          LeadingSpaces(Top.blockContent) = 2 * Top.level

\* A document of three blocks, one under the other, has been assembled.
C17_Witness ==
    /\ Converted
    /\ Len(blocksData.results) = 1
    /\ content = "b1\n\n  - b1.1\n    b1.1.1\n\n"

\* The ids of the blocks whose children were fetched, in the order of the
\* fetches.
ChildrenFetched ==
    LET cs == SelectSeq(calls, LAMBDA c : c.api = "notion:children")
    IN  [i \in 1..Len(cs) |-> cs[i].id]

\* The ids of the blocks with children in document order: a block, then the
\* blocks below it, then its next sibling.
RECURSIVE FetchOrder(_)
FetchOrder(blocks) ==
    IF blocks = <<>> THEN <<>>
    ELSE LET b == Head(blocks)
         IN  (IF b.has_children THEN <<b.id>> ELSE <<>>)
               \o (IF b.kids.kind = "ok" THEN FetchOrder(b.kids.results) ELSE <<>>)
               \o FetchOrder(Tail(blocks))

IsPrefix(s, t) == Len(s) <= Len(t) /\ s = SubSeq(t, 1, Len(s))

\* In every state: at most one call is outstanding, and the children
\* fetches made so far follow the document order.
OneCallInDocumentOrder ==
    /\ Cardinality(Outstanding) <= 1
    /\ (TitleResolved /\ WellFormed(blocksData.results)) =>
          /\ IsPrefix(ChildrenFetched, FetchOrder(blocksData.results))
          /\ Converted => ChildrenFetched = FetchOrder(blocksData.results)
          /\ pc = "children" =>
                /\ FetchOrder(SubSeq(Top.blocks, 1, Top.i - 1))
                     = SubSeq(ChildrenFetched,
                              Len(ChildrenFetched) + 1
                                - Len(FetchOrder(SubSeq(Top.blocks, 1, Top.i - 1))),
                              Len(ChildrenFetched))
                /\ Top.blockContent =
                     PreOrder(SubSeq(Top.blocks, 1, Top.i - 1), Top.level)
                       \o processBlock(Top.blocks[Top.i], Top.level)

\* A step completes at most one call, the one that was outstanding.
CompletesTheOutstandingCall ==
    calls' # calls =>
        /\ Len(calls') = Len(calls) + 1
        /\ SubSeq(calls', 1, Len(calls)) = calls
        /\ Outstanding = {calls'[Len(calls')].api}

\* C18: the handler never waits for more than one call; the children
\* fetches are issued in document order, and while the fetch for a block is
\* outstanding the subtrees of all its previous siblings have been fetched
\* and converted (blocks that convert without throwing).
C18_OneCallInDocumentOrder ==
    [](OneCallInDocumentOrder) /\ [][CompletesTheOutstandingCall]_vars

\* The fetch for the second top-level block is outstanding, after the
\* fetches for the first and for the block below the first.
C18_Witness ==
    /\ pc = "children"
    /\ Len(stack) = 1
    /\ Top.i = 2
    /\ ChildrenFetched = <<"b1", "b1.1">>
    /\ Outstanding = {"notion:children"}

\* The calls made to an api for an id.
CallsTo(api, id) == SelectSeq(calls, LAMBDA c : c.api = api /\ c.id = id)

\* C19: no call is repeated, whatever its outcome: each store query, the
\* page fetch, the fetch of the top-level blocks and the insert are made at
\* most once in a request, and so is the children fetch of each block; a
\* first page of blocks that has more after it is not followed by a second.
C19_EachCallAtMostOnce ==
    \A i, j \in 1..Len(calls) :
        (calls[i].api = calls[j].api /\ calls[i].id = calls[j].id) => i = j

\* An import has succeeded on the first page of blocks although Notion
\* holds more.
C19_Witness ==
    /\ Succeeded
    /\ blocksData.has_more
    /\ Len(CallsTo("notion:blocks", pageId)) = 1
    /\ Len(CallsTo("notion:page", pageId)) = 1
    /\ Len(CallsTo("insert:project_notes", projectId)) = 1

(***************************************************************************)
(* Termination of notion-import-page (specification SpecLive).             *)
(***************************************************************************)
Received == pc = "received"
Answered == Done /\ response # NoResponse

\* A response, once returned, is the response of the request.
OnlyOneResponse == response # NoResponse => response' = response

\* C20: whatever the block tree (finite and without cycles) and whatever
\* the outcome of each fetch and of the insert, a request that has arrived
\* is eventually answered, and it is answered once.
C20_EventuallyOneResponse ==
    (Received ~> Answered) /\ [][OnlyOneResponse]_vars

\* A request has been answered after the recursion went three levels deep
\* and the insert failed.
C20_Witness ==
    /\ Answered
    /\ InsertIssued
    /\ LastCall.status = "error"
    /\ ChildrenFetched = <<"b1", "b1.1", "b1.1.1">>

(***************************************************************************)
(* Two concurrent imports (specification SpecTwo).                         *)
(***************************************************************************)
\* The text buffers of the running request: the blockContent of each active
\* call of processBlocks and the assembled document.
Buffers == {stack[i].blockContent : i \in 1..Len(stack)} \cup {content}

\* Texts that occur only in the blocks of the first request's page, and
\* only in those of the second's.
FirstOnly == {"Goals", "Grow", "Ship"}
SecondOnly == {"c1", "c2"}

\* What the running request produces when it runs alone, from the page and
\* the blocks Notion gave it (the store numbers the row).
AloneTitle == ResolveTitle(pageData, blocksData.results)
AloneRow(id) ==
    [id |-> id,
     title |-> AloneTitle,
     content |-> Trim(PreOrder(blocksData.results, 0)),
     project_id |-> projectId,
     user_id |-> userId,
     tags |-> <<"notion", "imported", "notion-import">>,
     source_document |-> [type |-> "notion", url |-> pageData.url,
                          name |-> AloneTitle, id |-> pageId]]

\* C21: with two import requests interleaved at their awaits in every way,
\* each has the title, the document, the row and the response it has when
\* it runs alone, and no buffer of one holds a text of the other's blocks.
C21_RequestsShareNothing ==
    running \in {1, 2} =>
        /\ TitleResolved => pageTitle = AloneTitle
        /\ (Converted /\ WellFormed(blocksData.results)) =>
              content = PreOrder(blocksData.results, 0)
        /\ (Succeeded /\ WellFormed(blocksData.results)) =>
              \E i \in 1..Len(project_notes) :
                 /\ project_notes[i] = AloneRow(i)
                 /\ response = [status |-> 200, kind |-> "json", cors |-> TRUE,
                                success |-> TRUE, note |-> AloneRow(i),
                                message |-> "Successfully imported \""
                                              \o AloneTitle \o "\" from Notion",
                                error |-> ""]
        /\ \A b \in Buffers :
              \A t \in (IF running = 1 THEN SecondOnly ELSE FirstOnly) :
                 ~Contains(b, t)

\* Both requests are in the middle of their conversion, each with text in
\* its buffer.
C21_Witness ==
    /\ running = 2
    /\ pc = "children"
    /\ Top.blockContent = "c1\n\n"
    /\ parked[1] = "convert"
    /\ Len(parked[14]) = 1
    /\ parked[14][1].blockContent = "# Goals\n\n"

\* ---------------------------------------------------------------------
\* The access check of notion-import-page
\* ---------------------------------------------------------------------

\* What the access queries established: is_project_member answered true, or
\* the owner query answered with the user as the owner.
AccessEstablished ==
    \/ projectAccess /\ ~projectError
    \/ ~ownerError /\ userId # "" /\ projectOwner.owner_id = userId

\* The access check has run: both queries are in the call log.
MadeCalls(api) == SelectSeq(calls, LAMBDA c : c.api = api)

AccessChecked == MadeCalls("select:projects") # <<>>

NotionCalls == MadeCalls("notion:page") \o MadeCalls("notion:blocks")
                  \o MadeCalls("notion:children")

\* C23: no Notion API call is issued, no note is inserted and the Notion
\* connection is not read unless the access check established that the user
\* is a member or the owner of the project; when it did not, both queries
\* failing included, the request ends with HTTP 400.
C23_NoAccessNoImport ==
    /\ (NotionCalls # <<>> \/ MadeCalls("insert:project_notes") # <<>>
           \/ MadeCalls("select:notion_connections") # <<>>
           \/ project_notes # <<>> \/ noteData # NoNote)
          => AccessChecked /\ AccessEstablished
    /\ (AccessChecked /\ ~AccessEstablished)
          => /\ pc = "done"
             /\ response.status = 400
             /\ response.error = NoAccess

\* Both access queries failed and the request was refused.
C23_Witness ==
    /\ AccessChecked /\ projectError /\ ownerError
    /\ response.status = 400 /\ calls # <<>>
    /\ calls[Len(calls)].api = "select:projects"

\* ---------------------------------------------------------------------
\* Errors inside the conversion of a block's children
\* ---------------------------------------------------------------------

\* What processBlocks(blocks, level) is to return: thrown is TRUE when a
\* block of the list cannot be converted, and otherwise text is the
\* fragments of the blocks, each followed by what its children contribute:
\* their document, nothing when the fetch was answered with an error
\* status, and the placeholder alone when the fetch or the conversion of a
\* child threw.
RECURSIVE Assembled(_, _)
Assembled(blocks, level) ==
    IF blocks = <<>> THEN [thrown |-> FALSE, text |-> ""]
    ELSE LET b == Head(blocks)
         IN  IF ProcessBlockThrows(b) THEN [thrown |-> TRUE, text |-> ""]
             ELSE LET kids == CASE b.kids.kind = "ok" ->
                                     LET c == Assembled(b.kids.results, level + 1)
                                     IN  IF c.thrown THEN Placeholder ELSE c.text
                                [] b.kids.kind = "throw" -> Placeholder
                                [] OTHER -> ""
                      rest == Assembled(Tail(blocks), level)
                  IN  [thrown |-> rest.thrown,
                       text |-> processBlock(b, level) \o kids \o rest.text]

\* C24: when the conversion of a block's children throws, the children
\* contribute the placeholder alone: the fragments of the children converted
\* before the failure are dropped, the block's own fragment and the blocks
\* before it are kept and the next sibling is converted; when a top-level
\* block itself cannot be converted the request is aborted with the error
\* response and no note.
C24_ChildrenErrorIsContained ==
    LET doc == Assembled(blocksData.results, 0)
    IN  /\ Converted => ~doc.thrown /\ content = doc.text
        /\ doc.thrown =>
              /\ project_notes = <<>> /\ noteData = NoNote
              /\ MadeCalls("insert:project_notes") = <<>>
              /\ pc = "done" => /\ response.status = 400
                                /\ response.error = TypeErrorMessage

\* A block's first child was converted, its second could not be: the
\* document is the block's fragment and the placeholder.
C24_Witness ==
    /\ Converted
    /\ Len(blocksData.results) = 1
    /\ LET b == blocksData.results[1]
       IN  /\ b.kids.kind = "ok" /\ Len(b.kids.results) = 2
           /\ ~ProcessBlockThrows(b.kids.results[1])
           /\ processBlock(b.kids.results[1], 1) # ""
           /\ ProcessBlockThrows(b.kids.results[2])
           /\ content = processBlock(b, 0) \o Placeholder

\* ---------------------------------------------------------------------
\* The Stripe webhook
\* ---------------------------------------------------------------------

\* A handler has returned its response.
HookDone(h) == hooks[h].pc = "done"

\* A handler is between its first store call and its response.
HookAtStore(h) == hooks[h].pc \notin {"idle", "done"}

\* C25 as stated: every request that is not a POST is answered with 405.
C25_NonPostGets405 ==
    \A h \in Handlers :
       (HookDone(h) /\ hooks[h].method # "POST") => hooks[h].response.status = 405

\* The answers to the requests that are refused.
RefusedAnswers ==
    \A h \in Handlers :
       HookDone(h) =>
          /\ hooks[h].method = "OPTIONS" => hooks[h].response = HookResponse(200, "")
          /\ hooks[h].method \notin {"POST", "OPTIONS"} =>
                hooks[h].response = HookResponse(405, "Method not allowed")
          /\ (hooks[h].method = "POST" /\ hooks[h].signature = "") =>
                hooks[h].response = HookResponse(400, "No stripe signature")
          /\ (hooks[h].method = "POST" /\ hooks[h].signature = "forged") =>
                hooks[h].response.status = 400

\* A handler makes store calls only for a POST whose signature verifies.
OnlyVerifiedAtStore ==
    \A h \in Handlers :
       HookAtStore(h) => hooks[h].method = "POST" /\ hooks[h].signature = "valid"

\* A step that changes user_memberships or profiles is a step of a handler
\* that is making its store calls.
WriteIsOfAHandlerAtStore ==
    <<user_memberships, profiles>>' # <<user_memberships, profiles>> =>
       \E h \in Handlers : HookAtStore(h) /\ hooks'[h] # hooks[h]

\* C25: user_memberships and profiles are written only by the handler of a
\* POST whose stripe-signature verifies; a request that is neither POST nor
\* OPTIONS gets 405, an OPTIONS request the preflight response, a POST
\* without a signature or with one that fails verification gets 400, and
\* none of them reaches a store call.
C25_OnlyVerifiedPostsWrite ==
    /\ [](RefusedAnswers /\ OnlyVerifiedAtStore)
    /\ [][WriteIsOfAHandlerAtStore]_vars

\* A forged POST was refused with 400 while the checkout of a signed one
\* gave the second user a membership.
C25_Witness ==
    \E h, g \in Handlers :
       /\ HookDone(h) /\ hooks[h].method = "POST" /\ hooks[h].signature = "forged"
       /\ hooks[h].response.status = 400
       /\ HookDone(g) /\ hooks[g].signature = "valid"
       /\ hooks[g].event.type = "checkout.session.completed"
       /\ user_memberships["u2"] # NoRow

\* C26: when no handler is running, every user with a membership row has
\* profiles.membership_tier_id equal to the row's tier_id.
C26_ProfileMatchesMembership ==
    (\A h \in Handlers : ~HookAtStore(h)) =>
       \A u \in Users :
          user_memberships[u] # NoRow => profiles[u] = user_memberships[u].tier_id

\* A step of the handler of a customer.subscription.deleted event whose
\* query for the membership is answered while no row stores the event's
\* subscription id.
DeletedOfUnknownSubscription(h) ==
    /\ hooks[h].pc = "select"
    /\ hooks[h].event.type = "customer.subscription.deleted"
    /\ RowsOf(hooks[h].event.subscription) = {}
    /\ hooks'[h] # hooks[h]

\* C27: a customer.subscription.deleted event whose subscription id no
\* membership row stores leaves user_memberships and profiles as they are,
\* and its handler answers 200 without a further store call.
C27_UnknownSubscriptionChangesNothing ==
    [][\A h \in Handlers :
          DeletedOfUnknownSubscription(h) =>
             /\ UNCHANGED <<user_memberships, profiles>>
             /\ hooks'[h].pc = "done"
             /\ hooks'[h].response = HookResponse(200, "")]_vars

\* The first user's subscription s1 was superseded by a checkout with s2,
\* and the deletion of s1 was then handled.
C27_Witness ==
    \E h \in Handlers :
       /\ HookDone(h)
       /\ hooks[h].event.type = "customer.subscription.deleted"
       /\ hooks[h].event.subscription = "s1"
       /\ hooks[h].memberships = ""
       /\ RowsOf("s1") = {}
       /\ user_memberships["u1"].stripe_subscription_id = "s2"
       /\ user_memberships["u1"].is_active
       /\ profiles["u1"] = user_memberships["u1"].tier_id

\* ---------------------------------------------------------------------
\* useProjectChat
\* ---------------------------------------------------------------------

\* C28: the messages list holds only messages sent or received under the
\* hook's current project: the reply to a message sent under the previous
\* project is never in the new project's list.
C28_OnlyCurrentProjectMessages ==
    \A i \in 1..Len(messages) : messages[i].project = currentProjectId

\* C29: isLoading is true exactly while at least one sendMessage request is
\* in flight, overlapping sends included.
C29_LoadingWhileInFlight == isLoading = (inflight # {})

\* ---------------------------------------------------------------------
\* user-statistics
\* ---------------------------------------------------------------------

\* C30: in the statistics returned, no project whose owner_id is the user
\* is among the projects counted in sharedBrains, and no project is counted
\* in both ownedBrains and sharedBrains.
C30_SharedExcludesOwned ==
    (statistics.pc = "done" /\ statistics.response.status = 200) =>
       /\ statistics.response.sharedBrains = Cardinality(statistics.sharedIds)
       /\ \A id \in statistics.sharedIds :
             projects[id].owner_id # statistics.userId
       /\ statistics.ownedProjectsCount > 0 =>
             statistics.sharedIds \cap statistics.ownedProjects = {}

=========================================================================
